---- MODULE Spec2Model ----
(***************************************************************************)
(* Verification model of the osgrep retrieval core.                        *)
(*                                                                         *)
(* Part 1: the embedding worker pool (src/src/lib/worker-manager.ts,       *)
(* class WorkerManager).  The pool is a single-threaded event loop: every  *)
(* action below is one macrotask (an API call, a worker event, a timer)    *)
(* together with the microtasks it queues.  An async function is split     *)
(* only where it awaits something that settles in a later macrotask: the   *)
(* exit of a Worker that terminate() was called on, the restart future of  *)
(* a slot, the grace timer of close().  terminate() on a Worker that has   *)
(* already exited returns a resolved promise, so a continuation that       *)
(* awaits it runs among the microtasks of the exit event itself.           *)
(***************************************************************************)
EXTENDS Integers, FiniteSets, Sequences, TLC

\* ------------------------------------------------------------------ bounds
MaxCpus == 3        \* the pool is run on machines of 2..MaxCpus logical CPUs
MaxCpuCount == 6    \* the pool is sized for machines of 0..MaxCpuCount logical CPUs
MaxReqs == 2        \* requests handed to sendToWorker
MaxEvents == 2      \* restart triggers and faults: error, exit, over-limit reply, failed spawn
MaxClose == 1       \* calls of close()
MaxTexts == 2       \* texts in one getEmbeddings call
MaxEmbedCalls == 1  \* getEmbeddings calls in flight together
MaxCache == 2       \* VECTOR_CACHE_MAX, the capacity given to the vector cache
MaxSearches == 2    \* search calls on one Searcher, in flight together or in turn
MaxHits == 1        \* rows a store query returns, where only their number matters
MaxList == 2        \* rows the dense query, and the full-text query, return to one search
MaxSaves == 2       \* save() calls on one MetaStore
MaxKeyLen == 3      \* characters in a key of the meta map, and in a prefix
MaxKeys == 2        \* keys in the meta map deleteByPrefix is called on
MaxPathLen == 6     \* characters in the path isIgnored is asked about
MaxRootLen == 3     \* characters in the root isIgnored is given
MaxLinks == 2       \* symbolic links in the tree getFiles walks

\* --------------------------------------------------------------- constants
\* MAX_WORKER_RSS = 6 * 1024 * 1024 * 1024 bytes; counted here in KiB so that
\* the limit and its neighbours fit the integers of the model checker.
MAX_WORKER_RSS == 6 * 1024 * 1024
\* a reply without a memory report
NoMemory == -1
\* "no slot": the index getNextWorker has when it throws
None == -1

RssValues == {MAX_WORKER_RSS, MAX_WORKER_RSS + 1}
ReqIds == 1..MaxReqs
CloseIds == 1..MaxClose

Min(a, b) == IF a < b THEN a ELSE b
Max(a, b) == IF a > b THEN a ELSE b

VARIABLES
    cpus,             \* os.cpus().length seen by the constructor
    workers,          \* this.workers: slot -> "Worker" | "null"
    wstate,           \* slot -> "live" | "terminating" | "exited" | "none" of that Worker
    pendingRequests,  \* this.pendingRequests: id -> workerIndex
    timers,           \* ids whose setTimeout is armed
    restartInFlight,  \* this.restartInFlight: slot -> "none" | "pending" | "rejected"
    iife,             \* slot -> restart bodies suspended in `await worker.terminate()`
    outstanding,      \* slot -> restartWorker() calls whose promise is not settled yet
    isClosing,        \* this.isClosing
    nextWorkerIndex,  \* this.nextWorkerIndex
    rstate,           \* id -> "idle" | "waiting" | "pending" | "replied" | "timeout"
                      \*       | "restarting" | "threw"
    rslot,            \* id -> slot chosen (or awaited) by getNextWorker
    settles,          \* id -> calls of the request's resolve/reject
    inbox,            \* ids posted to the Worker now in their slot and not answered yet
    closePhase,       \* close() call -> "idle" | "grace" | "terminating"
    closeWait,        \* close() call -> slots whose terminate() it still awaits
    reason,           \* slot -> the `reason` held by its restart in flight, or "none"
    leaked,           \* slot -> Workers overwritten in the array with no terminate() call
    events,           \* restart triggers and faults injected so far
    vectorCache,      \* this.vectorCache: <<[key, value], ..>>, least recently used first
    embedCalls,       \* getEmbeddings call -> its locals and its position
    ftsIndexChecked,  \* Searcher.ftsIndexChecked
    createCalls,      \* invocations of db.createFTSIndex() so far
    searchCalls,      \* search call -> its position, its arguments and its outcome
    env,              \* process.env: OSGREP_* variable -> its string, "" when unset
    ranking,          \* the locals of one search() from retrieval to its result
    metaStore,        \* the MetaStore, the files it reads and writes, its calls
    fileSystem        \* the NodeFileSystem, its Git object, the tree it reads, its calls

\* The parts of metaStore.
data == metaStore.data              \* MetaStore.data: key -> {hash, mtimeMs, size}
loaded == metaStore.loaded          \* MetaStore.loaded
saveQueue == metaStore.saveQueue    \* MetaStore.saveQueue: the save() call whose promise it is, 0 at first
saves == metaStore.saves            \* save() call -> its position, the promise it chained on, its outcome
metaFile == metaStore.metaFile      \* the file META_FILE on disk
tmpFile == metaStore.tmpFile        \* the file `${META_FILE}.tmp` on disk
loadCall == metaStore.loadCall      \* the load() call: its position and its outcome
killed == metaStore.killed          \* the process was killed: where its saves were at that moment
deleteCall == metaStore.deleteCall  \* the last deleteByPrefix call: its prefix and the map before it

\* The parts of fileSystem.
customIgnoreFilter == fileSystem.customIgnoreFilter  \* NodeFileSystem.customIgnoreFilter: its patterns
git == fileSystem.git                \* NodeFileSystem.git: what the Git object answers
disk == fileSystem.disk              \* the tree on disk a NodeFileSystem reads
walk == fileSystem.walk              \* one getFiles() call: its frames, its visited set, what it yielded
ignoreCall == fileSystem.ignoreCall  \* one isIgnored() call: its arguments and its outcome

poolVars == <<cpus, workers, wstate, pendingRequests, timers, restartInFlight,
              iife, outstanding, isClosing, nextWorkerIndex, rstate, rslot,
              settles, inbox, closePhase, closeWait, reason, leaked,
              events>>

embedVars == <<vectorCache, embedCalls>>
searcherVars == <<ftsIndexChecked, createCalls, searchCalls>>
rankVars == <<env, ranking>>
metaVars == <<metaStore>>
fileVars == <<fileSystem>>
outsideMeta == <<poolVars, embedVars, searcherVars, rankVars, fileVars>>
laterVars == <<metaVars, fileVars>>
otherVars == <<embedVars, searcherVars, rankVars, laterVars>>

EmbedCallIds == 1..MaxEmbedCalls
NoCall == [phase |-> "idle", texts |-> << >>, cachedAtCall |-> {},
           neededIndices |-> << >>, neededTexts |-> << >>, results |-> << >>,
           sent |-> << >>]

\* The state of the parts of the program a specification leaves alone.
EmbedIdle ==
    /\ vectorCache = << >>
    /\ embedCalls = [c \in EmbedCallIds |-> NoCall]

SearchIds == 1..MaxSearches
NoSearch == [pc |-> "idle", doRerank |-> FALSE, nDense |-> 0, nFts |-> 0,
             cause |-> "none", data |-> "none"]

SearcherIdle ==
    /\ ftsIndexChecked = FALSE
    /\ createCalls = 0
    /\ searchCalls = [c \in SearchIds |-> NoSearch]

EnvNames == {"OSGREP_PRE_K", "OSGREP_STAGE1_K", "OSGREP_STAGE2_K", "OSGREP_RERANK_TOP",
             "OSGREP_RERANK_BLEND", "OSGREP_MAX_PER_FILE", "OSGREP_ANCHOR_PENALTY",
             "OSGREP_CODE_BOOST", "OSGREP_TEST_PENALTY", "OSGREP_DOC_PENALTY"}
EnvUnset == [n \in EnvNames |-> ""]
NoRanking == [pc |-> "idle"]

RankIdle ==
    /\ env = EnvUnset
    /\ ranking = NoRanking

\* A JSON value: a string, a finite number, a number too large for a double
\* (JSON.parse gives Infinity), null, or an object of named values.
JStr(str) == [t |-> "string", s |-> str, n |-> 0, fields |-> << >>]
JNum(num) == [t |-> "number", s |-> "", n |-> num, fields |-> << >>]
JInf == [t |-> "infinity", s |-> "", n |-> 0, fields |-> << >>]
JNull == [t |-> "null", s |-> "", n |-> 0, fields |-> << >>]
JObj(members) == [t |-> "object", s |-> "", n |-> 0, fields |-> members]

\* A file on disk: absent, text that JSON.parse rejects (a truncated write
\* among them), or the text of a JSON value.
Absent == [kind |-> "absent", value |-> JNull]
Garbled == [kind |-> "garbled", value |-> JNull]
Json(v) == [kind |-> "json", value |-> v]

SaveIds == 1..MaxSaves
NoSave == [pc |-> "idle", prev |-> 0, content |-> JNull, error |-> 0,
           atCall |-> << >>, touched |-> {}]
NoDelete == [prefix |-> << >>, before |-> << >>, calls |-> 0]
NoLoad == [pc |-> "idle", from |-> "none", main |-> Absent, tmp |-> Absent]

\* A MetaStore over the main file `main` and the tmp file `tmp`, as its
\* constructor leaves it.
FreshStore(main, tmp) ==
    [data |-> << >>, loaded |-> FALSE, saveQueue |-> 0,
     saves |-> [c \in SaveIds |-> NoSave],
     metaFile |-> main, tmpFile |-> tmp,
     loadCall |-> [NoLoad EXCEPT !.main = main, !.tmp = tmp],
     killed |-> << >>, deleteCall |-> NoDelete, dirty |-> FALSE]

\* No object of the class has been made.
NotConstructed == << >>

MetaIdle == metaStore = NotConstructed

\* What the Git object answers: the directories that are repositories, the
\* paths its listing of tracked files yields, the paths its ignore filter
\* matches.
NoGit == [repos |-> {}, tracked |-> << >>, ignored |-> {}]

\* A tree on disk, every path a string of characters: its real directories,
\* its regular files, its symbolic links with their targets (a target that
\* names nothing makes the link a broken one), the directories and files
\* that cannot be read, the order in which readdir lists names, and the
\* patterns written in a file named .osgrepignore.
NoDisk == [dirs |-> {}, files |-> {}, links |-> << >>, unreadable |-> {},
           descending |-> FALSE, text |-> {}]

NoWalk == [pc |-> "idle", stack |-> << >>, visited |-> {}, yielded |-> << >>]
NoIgnoreCall == [pc |-> "idle", filePath |-> << >>, root |-> << >>, threw |-> FALSE,
                 value |-> FALSE]

FileIdle == fileSystem = NotConstructed

LaterIdle == MetaIdle /\ FileIdle

\* ----------------------------------------------------------- construction
\* Faulty variant: the worker count without the cap of 4.
getWorkerCountNoCap(n) == Max(1, n - 1)

\* getWorkerCount(): Math.max(1, Math.min(os.cpus().length - 1, 4))
getWorkerCount(n) == Max(1, Min(n - 1, 4))

Slots == DOMAIN workers
total == Cardinality(DOMAIN workers)      \* this.workers.length

\* constructor -> initializeWorkers -> createWorker(0..N-1)
InitWith(cpuCounts) ==
    /\ cpus \in cpuCounts
    /\ workers = [i \in 0..(getWorkerCount(cpus) - 1) |-> "Worker"]
    /\ wstate = [i \in 0..(getWorkerCount(cpus) - 1) |-> "live"]
    /\ pendingRequests = << >>
    /\ timers = {}
    /\ restartInFlight = [i \in 0..(getWorkerCount(cpus) - 1) |-> "none"]
    /\ iife = [i \in 0..(getWorkerCount(cpus) - 1) |-> 0]
    /\ outstanding = [i \in 0..(getWorkerCount(cpus) - 1) |-> 0]
    /\ isClosing = FALSE
    /\ nextWorkerIndex = 0
    /\ rstate = [id \in ReqIds |-> "idle"]
    /\ rslot = [id \in ReqIds |-> None]
    /\ settles = [id \in ReqIds |-> 0]
    /\ inbox = {}
    /\ closePhase = [c \in CloseIds |-> "idle"]
    /\ closeWait = [c \in CloseIds |-> {}]
    /\ reason = [i \in 0..(getWorkerCount(cpus) - 1) |-> "none"]
    /\ leaked = [i \in 0..(getWorkerCount(cpus) - 1) |-> 0]
    /\ events = 0

PoolInit == InitWith(2..MaxCpus) /\ EmbedIdle /\ SearcherIdle /\ RankIdle /\ LaterIdle


\* ------------------------------------------------- the mutable pool state
\* The handlers below are state transformers over this record, so that one
\* handler can call another (the message, error and exit handlers all call
\* restartWorker) inside a single step.
Cur == [workers |-> workers, wstate |-> wstate,
        pendingRequests |-> pendingRequests, timers |-> timers,
        restartInFlight |-> restartInFlight, iife |-> iife,
        outstanding |-> outstanding, nextWorkerIndex |-> nextWorkerIndex,
        rstate |-> rstate, rslot |-> rslot, settles |-> settles,
        inbox |-> inbox, reason |-> reason, leaked |-> leaked]

Commit(P) ==
    /\ workers' = P.workers
    /\ wstate' = P.wstate
    /\ pendingRequests' = P.pendingRequests
    /\ timers' = P.timers
    /\ restartInFlight' = P.restartInFlight
    /\ iife' = P.iife
    /\ outstanding' = P.outstanding
    /\ nextWorkerIndex' = P.nextWorkerIndex
    /\ rstate' = P.rstate
    /\ rslot' = P.rslot
    /\ settles' = P.settles
    /\ inbox' = P.inbox
    /\ reason' = P.reason
    /\ leaked' = P.leaked

\* pending.reject(..)/pending.resolve(..) + clearTimeout + pendingRequests.delete
\* for every id of `ids`, which end in state `outcome`.
settleAll(P, ids, outcome) ==
    [P EXCEPT !.pendingRequests = [x \in (DOMAIN @) \ ids |-> @[x]],
              !.timers = @ \ ids,
              !.rstate = [x \in ReqIds |-> IF x \in ids THEN outcome ELSE @[x]],
              !.settles = [x \in ReqIds |-> IF x \in ids THEN @[x] + 1 ELSE @[x]]]

\* Faulty variant: the request is registered and posted with no timer armed.
registerNoTimer(P, ids, index) ==
    [P EXCEPT !.pendingRequests = [x \in (DOMAIN @) \cup ids |->
                                      IF x \in ids THEN index ELSE @[x]],
              !.rstate = [x \in ReqIds |-> IF x \in ids THEN "pending" ELSE @[x]],
              !.rslot = [x \in ReqIds |-> IF x \in ids THEN index ELSE @[x]],
              !.inbox = IF P.wstate[index] \in {"live", "terminating"}
                        THEN @ \cup ids ELSE @]

\* this.pendingRequests.set(id, {.., timeoutId, workerIndex: index});
\* worker.postMessage(payload): a Worker that has exited drops the message.
register(P, ids, index) ==
    [P EXCEPT !.pendingRequests = [x \in (DOMAIN @) \cup ids |->
                                      IF x \in ids THEN index ELSE @[x]],
              !.timers = @ \cup ids,
              !.rstate = [x \in ReqIds |-> IF x \in ids THEN "pending" ELSE @[x]],
              !.rslot = [x \in ReqIds |-> IF x \in ids THEN index ELSE @[x]],
              !.inbox = IF P.wstate[index] \in {"live", "terminating"}
                        THEN @ \cup ids ELSE @]

\* ------------------------------------------------------------- restart
\* The restart bodies of slot i after `await worker.terminate()` (lines
\* 132-140), then the tail of restartWorker (lines 143-144), then every
\* getNextWorker suspended on the restart future (lines 157-164): microtasks of
\* one macrotask, the tail of restartWorker being the first reaction
\* registered on the future.  Each body overwrites the slot with a new Worker:
\* all but the last of them are dropped without a terminate() call.
\*   createOk  `new Worker(..)` returned; otherwise createWorker throws, the
\*             restart future rejects, `await restartPromise` throws and the
\*             restartInFlight.delete of line 144 is never reached.
resume(P, i, createOk) ==
    LET waiters == {x \in ReqIds : P.rstate[x] = "waiting" /\ P.rslot[x] = i}
        Q == [P EXCEPT !.workers[i] = IF createOk THEN "Worker" ELSE "null",
                       !.wstate[i] = IF createOk THEN "live" ELSE "none",
                       !.leaked[i] = @ + (P.iife[i] - 1),
                       !.iife[i] = 0,
                       !.reason[i] = "none",
                       !.restartInFlight[i] = IF createOk THEN "none" ELSE "rejected",
                       !.outstanding[i] = 0,
                       !.inbox = {x \in @ : P.rslot[x] # i}]
    IN  IF createOk
        THEN IF waiters = {} THEN Q
             ELSE [register(Q, waiters, i) EXCEPT
                      !.nextWorkerIndex = (i + 1) % Cardinality(DOMAIN P.workers)]
        ELSE [Q EXCEPT !.rstate = [x \in ReqIds |->
                                      IF x \in waiters THEN "threw" ELSE @[x]]]

\* Faulty variant: the restart rejects nothing.
rejectNothing(P, workerIndex) == P

\* Faulty variant: rejects the pending requests of every slot.
rejectAllPending(P, workerIndex) ==
    settleAll(P, DOMAIN P.pendingRequests, "restarting")

\* rejectPendingForWorker: every entry whose workerIndex is the slot's is
\* rejected with the 'Worker restarting' error and deleted; the rest is skipped.
rejectPendingForWorker(P, workerIndex) ==
    settleAll(P, {x \in DOMAIN P.pendingRequests : P.pendingRequests[x] = workerIndex},
              "restarting")

\* Faulty variant: the single-flight test never finds a restart in flight.
inFlightNever(P, workerIndex) == FALSE

\* const inFlight = this.restartInFlight.get(workerIndex); if (inFlight) ...
inFlight(P, workerIndex) == P.restartInFlight[workerIndex] # "none"

\* restartWorker up to its first suspension.  A call that finds a restart in
\* flight returns that future.  Otherwise the slot's pending requests are
\* rejected, the restart body starts, and the future is stored in the map.
\* The body calls terminate() on the slot's Worker and suspends until that
\* Worker has exited.  (With no Worker in the slot the body would run to its
\* end at once; a slot is empty only after a failed createWorker, which leaves
\* its rejected future in the map, so that branch is never taken.)
restartWorker(P, workerIndex, why) ==
    IF inFlight(P, workerIndex)
    THEN [P EXCEPT !.outstanding[workerIndex] = @ + 1]
    ELSE LET Q == [rejectPendingForWorker(P, workerIndex) EXCEPT
                      !.reason[workerIndex] = why,
                      !.wstate[workerIndex] = IF @ = "live" THEN "terminating" ELSE @,
                      !.iife[workerIndex] = @ + 1,
                      !.restartInFlight[workerIndex] = "pending",
                      !.outstanding[workerIndex] = @ + 1]
         IN  IF P.workers[workerIndex] = "null" THEN resume(Q, workerIndex, TRUE) ELSE Q

\* --------------------------------------------------------- worker events
\* Faulty variant: the reply settles its request without the pending lookup.
deliverUnchecked(P, index, id) == settleAll(P, {id}, "replied")

\* The message handler's lookup: the reply settles the request, with whichever
\* of error / vectors / scores / vector it carries, only when the pending map
\* still holds its id for this slot.
deliver(P, index, id) ==
    IF id \in DOMAIN P.pendingRequests /\ P.pendingRequests[id] = index
    THEN settleAll(P, {id}, "replied")
    ELSE P

\* Faulty variant: the comparison with the limit is not strict.
memoryAtLimit(rss) == rss # NoMemory /\ rss >= MAX_WORKER_RSS

\* memory && memory.rss > this.MAX_WORKER_RSS
memoryOver(rss) == rss # NoMemory /\ rss > MAX_WORKER_RSS

\* Faulty variant: the exit handler ignores isClosing.
exitRestartsWhileClosing(code, closing) == code # 0

\* code !== 0 && !this.isClosing
exitRestarts(code, closing) == code # 0 /\ ~closing

canEmit(i) == workers[i] # "null" /\ wstate[i] \in {"live", "terminating"}

\* One more restart trigger or fault is taken from the budget.
Fault(yes) == IF yes THEN events < MaxEvents /\ events' = events + 1
                     ELSE events' = events

\* worker.on("message"): a reply to a request the Worker of the slot received.
OnMessage(id, rss) ==
    /\ id \in inbox
    /\ canEmit(rslot[id])
    /\ Fault(rss # NoMemory /\ rss > MAX_WORKER_RSS)
    /\ LET index == rslot[id]
           P1 == deliver([Cur EXCEPT !.inbox = @ \ {id}], index, id)
       IN  Commit(IF memoryOver(rss) THEN restartWorker(P1, index, "memory") ELSE P1)
    /\ UNCHANGED <<otherVars, cpus, isClosing, closePhase, closeWait>>

\* worker.on("error")
OnError(i) ==
    /\ canEmit(i)
    /\ Fault(TRUE)
    /\ Commit(restartWorker(Cur, i, "error"))
    /\ UNCHANGED <<otherVars, cpus, isClosing, closePhase, closeWait>>

\* worker.on("exit"): the Worker of slot i stops, on its own (any code) or
\* because terminate() was called on it (code 1).  Its unanswered messages die
\* with it.  After the handler, every terminate() promise of this Worker
\* resolves: the restart bodies of the slot resume, and every close() that
\* awaits this Worker is released.
OnExit(i, code, createOk) ==
    /\ workers[i] # "null"
    /\ \/ wstate[i] = "live"
       \/ wstate[i] = "terminating" /\ code = 1
    /\ LET P1 == [Cur EXCEPT !.wstate[i] = "exited",
                             !.inbox = {x \in @ : rslot[x] # i}]
           P2 == IF exitRestarts(code, isClosing) THEN restartWorker(P1, i, "exit") ELSE P1
       IN  /\ Fault((wstate[i] = "live") \/ ~createOk)
           /\ ~createOk => P2.iife[i] > 0 /\ wstate[i] # "live"
           /\ Commit(IF P2.iife[i] > 0 THEN resume(P2, i, createOk) ELSE P2)
    /\ closeWait' = [c \in CloseIds |-> closeWait[c] \ {i}]
    /\ UNCHANGED <<otherVars, cpus, isClosing, closePhase>>

\* `await worker.terminate()` rejects in a restart body: the catch logs and the
\* body goes on to replace the Worker.  The replaced Worker is not followed
\* any further.
TerminateFails(i, createOk) ==
    /\ iife[i] > 0
    /\ workers[i] # "null" /\ wstate[i] = "terminating"
    /\ createOk
    /\ Fault(TRUE)
    /\ Commit(resume(Cur, i, createOk))
    /\ closeWait' = [c \in CloseIds |-> closeWait[c] \ {i}]
    /\ UNCHANGED <<otherVars, cpus, isClosing, closePhase>>

\* ---------------------------------------------------------------- routing
\* Faulty variant: the loop without the wait on the slot's restart future.
RECURSIVE scanNoAwait(_, _)
scanNoAwait(P, i) ==
    IF i >= Cardinality(DOMAIN P.workers) THEN [kind |-> "throw", index |-> None]
    ELSE LET index == (P.nextWorkerIndex + i) % Cardinality(DOMAIN P.workers)
         IN  IF P.workers[index] # "null" THEN [kind |-> "return", index |-> index]
             ELSE scanNoAwait(P, i + 1)

\* The loop of getNextWorker from iteration i up to its first suspension:
\*   "await"   the slot's restart future is pending: suspend on it
\*   "throw"   the awaited future is already rejected, or no slot holds a Worker
\*   "return"  the slot holds a Worker: it is chosen
\* A suspended call is resumed by `resume`: the future it awaited has either
\* put a Worker in the slot, which the call then returns, or rejected.
RECURSIVE scan(_, _)
scan(P, i) ==
    IF i >= Cardinality(DOMAIN P.workers) THEN [kind |-> "throw", index |-> None]
    ELSE LET index == (P.nextWorkerIndex + i) % Cardinality(DOMAIN P.workers)
         IN  IF P.restartInFlight[index] = "pending" THEN [kind |-> "await", index |-> index]
             ELSE IF P.restartInFlight[index] = "rejected"
                  THEN [kind |-> "throw", index |-> index]
             ELSE IF P.workers[index] # "null" THEN [kind |-> "return", index |-> index]
             ELSE scan(P, i + 1)

getNextWorkerNoAwait(P) == scanNoAwait(P, 0)

getNextWorker(P) == scan(P, 0)

\* sendToWorker: route, then register the request in the pending map, arm its
\* timer and post the payload.
SendToWorker(id) ==
    /\ rstate[id] = "idle"
    /\ IF id = 1 THEN TRUE ELSE rstate[id - 1] # "idle"
    /\ LET r == getNextWorker(Cur)
       IN  CASE r.kind = "return" ->
                  Commit([register(Cur, {id}, r.index) EXCEPT
                             !.nextWorkerIndex = (r.index + 1) % total])
             [] r.kind = "await" ->
                  Commit([Cur EXCEPT !.rstate[id] = "waiting", !.rslot[id] = r.index])
             [] OTHER ->
                  Commit([Cur EXCEPT !.rstate[id] = "threw"])
    /\ UNCHANGED <<otherVars, cpus, isClosing, closePhase, closeWait, events>>

\* --------------------------------------------------------------- timeout
\* Faulty variant: the timer also restarts the slot of the request.
onTimeoutRestart(P, id) ==
    IF id \in DOMAIN P.pendingRequests
    THEN restartWorker(settleAll(P, {id}, "timeout"), P.pendingRequests[id], "timeout")
    ELSE [P EXCEPT !.timers = @ \ {id}]

\* The setTimeout callback of sendToWorker (lines 179-187).
onTimeout(P, id) ==
    IF id \in DOMAIN P.pendingRequests
    THEN settleAll(P, {id}, "timeout")
    ELSE [P EXCEPT !.timers = @ \ {id}]

Timeout(id) ==
    /\ id \in timers
    /\ Commit(onTimeout(Cur, id))
    /\ UNCHANGED <<otherVars, cpus, isClosing, closePhase, closeWait, events>>

\* ----------------------------------------------------------------- close
\* close() up to the grace timer: isClosing is set and a shutdown message is
\* posted to every Worker (the message itself changes nothing in the manager).
CloseBegin(c) ==
    /\ closePhase[c] = "idle"
    /\ IF c = 1 THEN TRUE ELSE closePhase[c - 1] # "idle"
    /\ isClosing' = TRUE
    /\ closePhase' = [closePhase EXCEPT ![c] = "grace"]
    /\ UNCHANGED <<otherVars, cpus, workers, wstate, pendingRequests, timers,
                   restartInFlight, iife, outstanding, nextWorkerIndex, rstate, rslot,
                   settles, inbox, closeWait, reason, leaked, events>>

\* After the grace period: terminate() is called on every Worker the array
\* holds at that moment, and the call awaits all of them.  It returns when
\* they have all exited (closeDone).
CloseTerminate(c) ==
    /\ closePhase[c] = "grace"
    /\ wstate' = [i \in Slots |-> IF workers[i] # "null" /\ wstate[i] = "live"
                                  THEN "terminating" ELSE wstate[i]]
    /\ closeWait' = [closeWait EXCEPT
                        ![c] = {i \in Slots : workers[i] # "null" /\ wstate[i] # "exited"}]
    /\ closePhase' = [closePhase EXCEPT ![c] = "terminating"]
    /\ UNCHANGED <<otherVars, cpus, workers, pendingRequests, timers, restartInFlight,
                   iife, outstanding, isClosing, nextWorkerIndex, rstate, rslot,
                   settles, inbox, reason, leaked, events>>

\* Promise.all over the terminations has resolved: close() has returned.
closeDone(c) == closePhase[c] = "terminating" /\ closeWait[c] = {}

\* ------------------------------------------------------ the specification
PoolNext ==
    \/ \E id \in ReqIds : SendToWorker(id)
    \/ \E id \in ReqIds, rss \in RssValues \cup {NoMemory} : OnMessage(id, rss)
    \/ \E id \in ReqIds : Timeout(id)
    \/ \E i \in Slots : OnError(i)
    \/ \E i \in Slots, code \in {0, 1}, createOk \in BOOLEAN : OnExit(i, code, createOk)
    \/ \E i \in Slots, createOk \in BOOLEAN : TerminateFails(i, createOk)
    \/ \E c \in CloseIds : CloseBegin(c)
    \/ \E c \in CloseIds : CloseTerminate(c)

PoolSpec == PoolInit /\ [][PoolNext]_poolVars

\* The pool on machines of every size, under restarts alone.
SizeInit == InitWith(0..MaxCpuCount) /\ EmbedIdle /\ SearcherIdle /\ RankIdle /\ LaterIdle

SizeNext ==
    \/ \E i \in Slots : OnError(i)
    \/ \E i \in Slots, code \in {0, 1}, createOk \in BOOLEAN : OnExit(i, code, createOk)
    \/ \E i \in Slots, createOk \in BOOLEAN : TerminateFails(i, createOk)

SizeSpec == SizeInit /\ [][SizeNext]_poolVars


\* ======================================================================
\* Properties of the worker pool
\* ======================================================================
PendingAt(i) == {x \in DOMAIN pendingRequests : pendingRequests[x] = i}
Settled == {"replied", "timeout", "restarting"}

\* The frame of a step on the requests outside `ids`: they keep their state,
\* their pending entry and their settle count.
RequestsKeptExcept(ids) ==
    \A x \in ReqIds \ ids :
        /\ rstate'[x] = rstate[x]
        /\ settles'[x] = settles[x]
        /\ (x \in DOMAIN pendingRequests') = (x \in DOMAIN pendingRequests)
        /\ x \in DOMAIN pendingRequests => pendingRequests'[x] = pendingRequests[x]

\* ---------------------------------------------------------------- C1
\* C1: restart single-flight.  In every reachable state a slot has at most one
\* restart body in progress, and it has one exactly while its restart future
\* is pending; no Worker is ever constructed twice for one restart (none is
\* overwritten without having been terminated); and the restartWorker calls
\* that joined the future are all settled once it is no longer pending.
C1_SingleFlight ==
    \A i \in Slots :
        /\ iife[i] <= 1
        /\ leaked[i] = 0
        /\ (restartInFlight[i] = "pending") = (iife[i] = 1)
        /\ (restartInFlight[i] # "pending") => outstanding[i] = 0
        /\ (restartInFlight[i] = "pending") => outstanding[i] >= 1

\* Two restart requests on one slot share the restart in flight.
C1_Witness == \E i \in Slots : outstanding[i] >= 2 /\ iife[i] = 1

\* ---------------------------------------------------------------- C2
\* The step runs the rejecting path of restartWorker(i); `answered` is the
\* request the same handler has settled with its reply just before.
RestartRejects(i, answered) ==
    /\ \A x \in PendingAt(i) \ answered :
           /\ rstate'[x] = "restarting"
           /\ settles'[x] = settles[x] + 1
           /\ x \notin DOMAIN pendingRequests'
           /\ x \notin timers'
    /\ RequestsKeptExcept(PendingAt(i) \cup answered)

\* C2: when a restart of slot i begins (from an error signal, a non-zero exit
\* signal or an over-limit reply, with no restart of i in flight), exactly the
\* requests pending with workerIndex = i are rejected with the restart error
\* and removed from the pending map; every other request is left as it was.
C2_RejectsExactlySlot ==
    [][ /\ \A i \in Slots :
               (OnError(i) /\ restartInFlight[i] = "none") => RestartRejects(i, {})
        /\ \A i \in Slots, ok \in BOOLEAN :
               (OnExit(i, 1, ok) /\ ~isClosing /\ restartInFlight[i] = "none")
                   => RestartRejects(i, {})
        /\ \A id \in ReqIds :
               (OnMessage(id, MAX_WORKER_RSS + 1) /\ restartInFlight[rslot[id]] = "none")
                   => RestartRejects(rslot[id], {id})
      ]_poolVars

\* A restart of one slot is in flight, a request of that slot carries the
\* restart error, and an older request of another slot is still pending.
C2_Witness ==
    \E a, b \in ReqIds :
        /\ b < a
        /\ rstate[a] = "restarting" /\ restartInFlight[rslot[a]] = "pending"
        /\ rstate[b] = "pending" /\ rslot[b] # rslot[a]

\* ---------------------------------------------------------------- C3
\* C3: the timer of a pending request rejects it with the timeout error and
\* deletes its pending entry, and changes nothing else: no Worker is
\* terminated or replaced, no restart starts, the other requests are untouched.
C3_TimeoutOnlyFailsRequest ==
    [][ \A id \in ReqIds :
            (Timeout(id) /\ id \in DOMAIN pendingRequests) =>
                /\ rstate'[id] = "timeout"
                /\ settles'[id] = settles[id] + 1
                /\ id \notin DOMAIN pendingRequests'
                /\ RequestsKeptExcept({id})
                /\ UNCHANGED <<workers, wstate, restartInFlight, iife, outstanding,
                               reason, leaked, inbox, nextWorkerIndex, isClosing>>
      ]_poolVars

\* A request has timed out on a pool that saw no fault and no close(): its
\* Worker is still live, and another request is still pending.
C3_Witness ==
    \E a, b \in ReqIds :
        /\ rstate[a] = "timeout" /\ rstate[b] = "pending"
        /\ events = 0 /\ ~isClosing
        /\ wstate[rslot[a]] = "live" /\ restartInFlight[rslot[a]] = "none"

\* ---------------------------------------------------------------- C4
LateReply(id, rss) == OnMessage(id, rss) /\ id \notin DOMAIN pendingRequests

SettledOnce ==
    \A id \in ReqIds :
        /\ settles[id] <= 1
        /\ (settles[id] = 1) = (rstate[id] \in Settled)
        /\ (id \in DOMAIN pendingRequests) = (rstate[id] = "pending")

\* C4 as stated: every request is settled at most once, and a reply that finds
\* no pending entry for its id settles nothing and changes no pending entry.
C4_AsStated ==
    /\ []SettledOnce
    /\ [][ \A id \in ReqIds, rss \in RssValues \cup {NoMemory} :
               LateReply(id, rss) =>
                   /\ pendingRequests' = pendingRequests
                   /\ settles' = settles
         ]_poolVars

\* C4, amended: every request is settled at most once, by its reply, its
\* timeout or a restart rejection.  A reply that finds no pending entry for its
\* id never settles that request again; it changes no pending entry either,
\* unless it carries a memory report over the limit, and then the restart it
\* schedules rejects the pending requests of its slot and no others.
C4_SettledAtMostOnce ==
    /\ []SettledOnce
    /\ [][ \A id \in ReqIds, rss \in RssValues \cup {NoMemory} :
               LateReply(id, rss) =>
                   /\ rstate'[id] = rstate[id]
                   /\ settles'[id] = settles[id]
                   /\ id \notin DOMAIN pendingRequests'
                   /\ IF rss # NoMemory /\ rss > MAX_WORKER_RSS
                      THEN RequestsKeptExcept(PendingAt(rslot[id]))
                      ELSE pendingRequests' = pendingRequests /\ settles' = settles
                           /\ rstate' = rstate
         ]_poolVars

\* The reply to a timed-out request has come in from a Worker that was never
\* disturbed, and the request still carries its timeout.
C4_Witness ==
    \E id \in ReqIds :
        /\ rstate[id] = "timeout" /\ settles[id] = 1
        /\ id \notin inbox
        /\ events = 0 /\ ~isClosing /\ wstate[rslot[id]] = "live"

\* ---------------------------------------------------------------- C5
\* C5: no request is registered in the pending map against, or waiting in the
\* inbox of a live Worker of, a slot whose restart is in flight; a dispatch
\* that found its slot under restart is registered only when that restart has
\* ended, against the same slot, and posted to the fresh Worker of that slot.
C5_NoDispatchUnderRestart ==
    /\ [](\A id \in DOMAIN pendingRequests :
              /\ restartInFlight[pendingRequests[id]] = "none"
              /\ wstate[pendingRequests[id]] \in {"live", "terminating"} => id \in inbox)
    /\ [][ \A id \in ReqIds :
               (rstate[id] = "waiting" /\ rstate'[id] # "waiting") =>
                   /\ restartInFlight[rslot[id]] = "pending"
                   /\ restartInFlight'[rslot[id]] # "pending"
                   /\ rstate'[id] = "pending" =>
                          /\ pendingRequests'[id] = rslot[id]
                          /\ workers'[rslot[id]] = "Worker"
                          /\ wstate'[rslot[id]] = "live"
                          /\ id \in inbox'
         ]_poolVars

\* A dispatch has selected a slot under restart and waits: nothing is
\* registered or posted for it.
C5_Witness ==
    \E id \in ReqIds :
        /\ rstate[id] = "waiting" /\ restartInFlight[rslot[id]] = "pending"
        /\ id \notin DOMAIN pendingRequests /\ id \notin inbox

\* ---------------------------------------------------------------- C6
\* C6: a request is dispatched only to a slot whose Worker is live (it has
\* not exited and terminate() has not been called on it), and with no restart
\* in progress a dispatch goes to slot nextWorkerIndex and advances it by one
\* modulo the pool size.
C6_RoutesToLiveRoundRobin ==
    [][ \A id \in ReqIds :
            (SendToWorker(id) /\ rstate'[id] = "pending") =>
                /\ wstate[rslot'[id]] = "live"
                /\ (\A i \in Slots : restartInFlight[i] = "none") =>
                       /\ rslot'[id] = nextWorkerIndex
                       /\ nextWorkerIndex' = (nextWorkerIndex + 1) % total
      ]_poolVars

\* ---------------------------------------------------------------- C7
\* C7: a reply from slot i calls restartWorker(i) exactly when its memory
\* report is strictly over MAX_WORKER_RSS; a report at or under the limit, or
\* none, never does.  The request the reply answers is settled as replied,
\* whatever the report.
C7_MemoryRestart ==
    [][ \A id \in ReqIds, rss \in RssValues \cup {NoMemory} :
            OnMessage(id, rss) =>
                /\ (outstanding'[rslot[id]] = outstanding[rslot[id]] + 1)
                       = (rss # NoMemory /\ rss > MAX_WORKER_RSS)
                /\ (rss = NoMemory \/ rss <= MAX_WORKER_RSS) =>
                       UNCHANGED <<outstanding, restartInFlight, iife, wstate, workers>>
                /\ id \in DOMAIN pendingRequests =>
                       /\ rstate'[id] = "replied"
                       /\ settles'[id] = settles[id] + 1
      ]_poolVars

\* The only trigger so far was an over-limit reply, from a slot that only one
\* request was ever routed to: that request is settled as replied while the
\* restart the reply scheduled is in flight.
C7_Witness ==
    \E id \in ReqIds :
        /\ rstate[id] = "replied"
        /\ \A x \in ReqIds \ {id} : rslot[x] # rslot[id]
        /\ events = 1
        /\ reason[rslot[id]] = "memory" /\ restartInFlight[rslot[id]] = "pending"

\* ---------------------------------------------------------------- C8
\* The slot after the rejecting path of restartWorker(i), up to the exit of
\* its old Worker.
RestartBegun(i) ==
    /\ restartInFlight'[i] = "pending"
    /\ iife'[i] = 1 /\ outstanding'[i] = 1
    /\ wstate'[i] = "terminating"
    /\ workers'[i] = workers[i]
    /\ RestartRejects(i, {})

\* C8: an error signal of slot i calls restartWorker(i), as an over-limit reply
\* does: with no restart in flight the pending requests of slot i are rejected
\* and the restart begins, otherwise the call joins the restart in flight.  An
\* exit signal with a non-zero code while the pool is not closing does the
\* same, and since the Worker is gone already the restart runs to its end at
\* once: the slot holds a fresh live Worker.  An exit signal with code 0, or
\* any exit signal once close() has begun, starts no restart: with none in
\* flight the slot keeps its exited Worker and no request is rejected.
C8_ErrorExitRestart ==
    [][ /\ \A i \in Slots :
               OnError(i) =>
                   IF restartInFlight[i] = "none"
                   THEN RestartBegun(i)
                   ELSE /\ outstanding'[i] = outstanding[i] + 1
                        /\ UNCHANGED <<restartInFlight, iife, workers, wstate, rstate,
                                       pendingRequests>>
        /\ \A i \in Slots, code \in {0, 1} :
               (OnExit(i, code, TRUE) /\ restartInFlight[i] = "none") =>
                   IF code # 0 /\ ~isClosing
                   THEN /\ RestartRejects(i, {})
                        /\ workers'[i] = "Worker" /\ wstate'[i] = "live"
                        /\ restartInFlight'[i] = "none"
                   ELSE /\ workers'[i] = workers[i] /\ wstate'[i] = "exited"
                        /\ UNCHANGED <<restartInFlight, iife, outstanding, rstate,
                                       pendingRequests, settles>>
      ]_poolVars

\* An error signal has started the restart of a slot and rejected a request
\* that was pending there.
C8_Witness ==
    \E i \in Slots, id \in ReqIds :
        /\ reason[i] = "error" /\ restartInFlight[i] = "pending"
        /\ wstate[i] = "terminating"
        /\ rstate[id] = "restarting" /\ rslot[id] = i

\* ---------------------------------------------------------------- C9
\* C9: once every close() call that was made has returned, every Worker of the
\* pool is terminated, after one call as after two.
C9_CloseTerminatesAll ==
    ( /\ \E c \in CloseIds : closeDone(c)
      /\ \A c \in CloseIds : closePhase[c] # "idle" => closeDone(c) )
        => \A i \in Slots : workers[i] # "null" => wstate[i] = "exited"

\* ---------------------------------------------------------------- C10
clamp(x, lo, hi) == IF x < lo THEN lo ELSE IF x > hi THEN hi ELSE x

\* C10: the pool has exactly clamp(cpus - 1, 1, 4) slots, indexed from 0, in
\* every reachable state (1 slot for 1 or 2 CPUs, 4 slots for 5 or more):
\* restarts replace Workers in place and never add or remove a slot.
C10_PoolSize ==
    /\ DOMAIN workers = 0..(clamp(cpus - 1, 1, 4) - 1)
    /\ cpus \in {1, 2} => total = 1
    /\ cpus >= 5 => total = 4
    /\ DOMAIN wstate = DOMAIN workers /\ DOMAIN restartInFlight = DOMAIN workers

\* A machine of 6 CPUs runs 4 slots, and a restart has replaced a Worker:
\* an event was consumed and yet every slot holds a live Worker with no
\* restart in flight.
C10_Witness ==
    /\ cpus = 6 /\ total = 4
    /\ events >= 1
    /\ \A i \in Slots : workers[i] = "Worker" /\ wstate[i] = "live"
                        /\ restartInFlight[i] = "none"


\* ======================================================================
\* Part 2: getEmbeddings and the vector cache (worker-manager.ts 200-238)
\* ======================================================================
Texts == {"a", "b", "c"}
Hole == "empty"                       \* an element of new Array(n) never assigned

\* The vector the embedding worker computes for a text.
Embed(t) == "vec(" \o t \o ")"

TextLists == UNION {[1..n -> Texts] : n \in 0..MaxTexts}

\* ------------------------------------------------------------- LRUCache
RECURSIVE lruIndex(_, _, _)
lruIndex(cache, key, i) ==
    IF i > Len(cache) THEN 0
    ELSE IF cache[i].key = key THEN i
    ELSE lruIndex(cache, key, i + 1)

lruWithout(cache, key) == SelectSeq(cache, LAMBDA e : e.key # key)

\* get: the value of the key, which becomes the most recently used entry.
lruGet(cache, key) ==
    LET i == lruIndex(cache, key, 1)
    IN  IF i = 0 THEN [hit |-> FALSE, value |-> Hole, cache |-> cache]
        ELSE [hit |-> TRUE, value |-> cache[i].value,
              cache |-> Append(lruWithout(cache, key), cache[i])]

\* set: the entry becomes the most recently used one; over the capacity the
\* least recently used entry is evicted.
lruSet(cache, key, value) ==
    LET c == Append(lruWithout(cache, key), [key |-> key, value |-> value])
    IN  IF Len(c) > MaxCache THEN Tail(c) ELSE c

\* --------------------------------------------------------- getEmbeddings
\* The first loop (lines 205-214) from position i: a hit fills results[i],
\* a miss is pushed on neededIndices and neededTexts.  Positions are 1-based
\* here, 0-based in the source.
RECURSIVE lookup(_, _)
lookup(L, i) ==
    IF i > Len(L.texts) THEN L
    ELSE LET g == lruGet(L.cache, L.texts[i])
         IN  IF g.hit
             THEN lookup([L EXCEPT !.cache = g.cache, !.results[i] = g.value], i + 1)
             ELSE lookup([L EXCEPT !.neededIndices = Append(@, i),
                                   !.neededTexts = Append(@, L.texts[i])], i + 1)

\* Faulty variant: the computed vector is stored at its position in the batch.
RECURSIVE storeAtBatchIndex(_, _, _)
storeAtBatchIndex(L, computedVectors, i) ==
    IF i > Len(computedVectors) THEN L
    ELSE storeAtBatchIndex([L EXCEPT !.cache = lruSet(@, L.neededTexts[i], computedVectors[i]),
                                     !.results[i] = computedVectors[i]],
                           computedVectors, i + 1)

\* The second loop (lines 223-230) from position i: the i-th computed vector is
\* cached under the i-th needed text and stored at that text's own index.
RECURSIVE store(_, _, _)
store(L, computedVectors, i) ==
    IF i > Len(computedVectors) THEN L
    ELSE store([L EXCEPT !.cache = lruSet(@, L.neededTexts[i], computedVectors[i]),
                         !.results[L.neededIndices[i]] = computedVectors[i]],
               computedVectors, i + 1)

\* The reply of the worker to a batch: one vector per text, in order.
workerVectors(batch) == [i \in 1..Len(batch) |-> Embed(batch[i])]

\* getEmbeddings(texts) up to `await this.sendToWorker(..)`, or to its return
\* when every text is cached.
GetEmbeddings(c, texts) ==
    /\ embedCalls[c].phase = "idle"
    /\ LET L == lookup([cache |-> vectorCache, texts |-> texts,
                        neededIndices |-> << >>, neededTexts |-> << >>,
                        results |-> [i \in 1..Len(texts) |-> Hole]], 1)
       IN  /\ vectorCache' = L.cache
           /\ embedCalls' = [embedCalls EXCEPT ![c] =
                 [phase |-> IF Len(L.neededTexts) = 0 THEN "done" ELSE "waiting",
                  texts |-> texts,
                  cachedAtCall |-> {vectorCache[i].key : i \in 1..Len(vectorCache)},
                  neededIndices |-> L.neededIndices, neededTexts |-> L.neededTexts,
                  results |-> L.results,
                  sent |-> IF Len(L.neededTexts) = 0 THEN << >> ELSE <<L.neededTexts>>]]
    /\ UNCHANGED <<poolVars, laterVars, searcherVars, rankVars>>

\* The worker has answered the batch: the rest of getEmbeddings.
EmbedReply(c) ==
    /\ embedCalls[c].phase = "waiting"
    /\ LET E == embedCalls[c]
           L == store([cache |-> vectorCache, neededIndices |-> E.neededIndices,
                       neededTexts |-> E.neededTexts, results |-> E.results],
                      workerVectors(E.sent[1]), 1)
       IN  /\ vectorCache' = L.cache
           /\ embedCalls' = [embedCalls EXCEPT ![c].phase = "done",
                                               ![c].results = L.results]
    /\ UNCHANGED <<poolVars, laterVars, searcherVars, rankVars>>

\* sendToWorker has rejected (timeout, restart): getEmbeddings throws.
EmbedReject(c) ==
    /\ embedCalls[c].phase = "waiting"
    /\ embedCalls' = [embedCalls EXCEPT ![c].phase = "threw"]
    /\ UNCHANGED <<poolVars, laterVars, searcherVars, rankVars, vectorCache>>

\* The caller has taken the outcome of the call.
EmbedReturn(c) ==
    /\ embedCalls[c].phase \in {"done", "threw"}
    /\ embedCalls' = [embedCalls EXCEPT ![c] = NoCall]
    /\ UNCHANGED <<poolVars, laterVars, searcherVars, rankVars, vectorCache>>

PoolIdle == InitWith({2})

\* A manager just constructed: the cache is empty.
EmbedInit == PoolIdle /\ EmbedIdle /\ SearcherIdle /\ RankIdle /\ LaterIdle

EmbedNext ==
    \/ \E c \in EmbedCallIds, texts \in TextLists : GetEmbeddings(c, texts)
    \/ \E c \in EmbedCallIds : EmbedReply(c)
    \/ \E c \in EmbedCallIds : EmbedReject(c)
    \/ \E c \in EmbedCallIds : EmbedReturn(c)

EmbedSpec == EmbedInit /\ [][EmbedNext]_embedVars

\* ---------------------------------------------------------------- C11
\* C11: getEmbeddings looks every input text up in the cache first.  With
\* every text cached it sends no worker request; otherwise it sends exactly
\* one, holding exactly the texts that were not cached when it was called, in
\* input order.  The list it returns has one vector per input text, at the
\* position of its text.
C11_CacheThenOneBatch ==
    \A c \in EmbedCallIds :
        LET E == embedCalls[c]
            missed == SelectSeq(E.texts, LAMBDA t : t \notin E.cachedAtCall)
        IN  E.phase # "idle" =>
                /\ Len(E.sent) <= 1
                /\ (Len(E.sent) = 0) = (\A i \in 1..Len(E.texts) : E.texts[i] \in E.cachedAtCall)
                /\ Len(E.sent) = 1 => E.sent[1] = missed
                /\ E.phase = "done" =>
                       /\ Len(E.results) = Len(E.texts)
                       /\ \A i \in 1..Len(E.texts) : E.results[i] = Embed(E.texts[i])

\* A call has returned a cached vector after a computed one: its second text
\* was cached, its first was not and went to the worker alone.
C11_Witness ==
    \E c \in EmbedCallIds :
        LET E == embedCalls[c]
        IN  /\ E.phase = "done" /\ Len(E.texts) = 2
            /\ E.texts[1] \notin E.cachedAtCall /\ E.texts[2] \in E.cachedAtCall
            /\ E.sent = <<(<<E.texts[1]>>)>>


\* ======================================================================
\* Part 3: Searcher.search, its suspension points and its failures
\* ======================================================================
\* One step per await of search(): the step is the completion of the awaited
\* call, with its outcome, and the code that follows it up to the next await.
\* Of the rows the store returns only the number is kept here; what search
\* computes from them is Part 4.

\* Faulty variant: the flag is left as it is before createFTSIndex is awaited.
flagLeftUnset(checked) == checked

\* this.ftsIndexChecked = true, before the await of line 144
flagBeforeCreate(checked) == TRUE

\* search(query, top_k, {rerank}) up to `await pool.encodeQuery(query)`
Search(c, doRerank) ==
    /\ searchCalls[c].pc = "idle"
    /\ IF c = 1 THEN TRUE ELSE searchCalls[c - 1].pc # "idle"
    /\ searchCalls' = [searchCalls EXCEPT ![c].pc = "encodeQuery",
                                          ![c].doRerank = doRerank]
    /\ UNCHANGED <<poolVars, laterVars, embedVars, rankVars, ftsIndexChecked, createCalls>>

\* pool.encodeQuery settles.  The pool rejects the request when the worker
\* serving it is restarted; the await is outside every try block.
EncodeQueryDone(c, ok) ==
    /\ searchCalls[c].pc = "encodeQuery"
    /\ searchCalls' = [searchCalls EXCEPT
          ![c].pc = IF ok THEN "ensureTable" ELSE "threw",
          ![c].cause = IF ok THEN @ ELSE "worker restart"]
    /\ UNCHANGED <<poolVars, laterVars, embedVars, rankVars, ftsIndexChecked, createCalls>>

\* db.ensureTable() settles (lines 134-138), then the one-shot check of the
\* FTS index up to `await this.db.createFTSIndex()` (lines 141-144).
EnsureTableDone(c, ok) ==
    /\ searchCalls[c].pc = "ensureTable"
    /\ IF ~ok
       THEN /\ searchCalls' = [searchCalls EXCEPT ![c].pc = "returned",
                                   ![c].data = "empty", ![c].cause = "ensureTable"]
            /\ UNCHANGED <<ftsIndexChecked, createCalls>>
       ELSE IF ~ftsIndexChecked
       THEN /\ ftsIndexChecked' = flagBeforeCreate(ftsIndexChecked)
            /\ createCalls' = createCalls + 1
            /\ searchCalls' = [searchCalls EXCEPT ![c].pc = "createFTSIndex"]
       ELSE /\ searchCalls' = [searchCalls EXCEPT ![c].pc = "vectorSearch"]
            /\ UNCHANGED <<ftsIndexChecked, createCalls>>
    /\ UNCHANGED <<poolVars, laterVars, embedVars, rankVars>>

\* db.createFTSIndex() settles; a failure is logged (lines 145-147).
CreateFTSIndexDone(c, ok) ==
    /\ searchCalls[c].pc = "createFTSIndex"
    /\ searchCalls' = [searchCalls EXCEPT
          ![c].pc = "vectorSearch",
          ![c].cause = IF ok THEN @ ELSE "createFTSIndex"]
    /\ UNCHANGED <<poolVars, laterVars, embedVars, rankVars, ftsIndexChecked, createCalls>>

\* vectorQuery.toArray() settles (line 154); the await is outside every try.
VectorSearchDone(c, ok, n) ==
    /\ searchCalls[c].pc = "vectorSearch"
    /\ searchCalls' = [searchCalls EXCEPT
          ![c].pc = IF ok THEN "ftsSearch" ELSE "threw",
          ![c].nDense = IF ok THEN n ELSE 0,
          ![c].cause = IF ok THEN @ ELSE "vector search"]
    /\ UNCHANGED <<poolVars, laterVars, embedVars, rankVars, ftsIndexChecked, createCalls>>

\* The full-text query settles (lines 156-166); on a failure ftsResults stays
\* empty.  Then fusion and stage 1, up to the return of line 241 or to the
\* await of pool.rerank; with rerank disabled, up to the final return.
FtsSearchDone(c, ok, n) ==
    /\ searchCalls[c].pc = "ftsSearch"
    /\ LET nFts == IF ok THEN n ELSE 0
           S == [searchCalls[c] EXCEPT !.nFts = nFts,
                                       !.cause = IF ok THEN @ ELSE "fts search"]
       IN  searchCalls' = [searchCalls EXCEPT ![c] =
              IF S.nDense + nFts = 0
              THEN [S EXCEPT !.pc = "returned", !.data = "empty",
                             !.cause = IF ok THEN "no candidates" ELSE @]
              ELSE IF S.doRerank THEN [S EXCEPT !.pc = "rerank"]
              ELSE [S EXCEPT !.pc = "returned", !.data = "records"]]
    /\ UNCHANGED <<poolVars, laterVars, embedVars, rankVars, ftsIndexChecked, createCalls>>

\* pool.rerank settles (lines 246-257); the await is outside every try.
RerankDone(c, ok) ==
    /\ searchCalls[c].pc = "rerank"
    /\ searchCalls' = [searchCalls EXCEPT
          ![c].pc = IF ok THEN "returned" ELSE "threw",
          ![c].data = IF ok THEN "records" ELSE @,
          ![c].cause = IF ok THEN @ ELSE "worker restart"]
    /\ UNCHANGED <<poolVars, laterVars, embedVars, rankVars, ftsIndexChecked, createCalls>>

SearcherInit == PoolIdle /\ EmbedIdle /\ SearcherIdle /\ RankIdle /\ LaterIdle

SearcherNext ==
    \/ \E c \in SearchIds, doRerank \in BOOLEAN : Search(c, doRerank)
    \/ \E c \in SearchIds, ok \in BOOLEAN : EncodeQueryDone(c, ok)
    \/ \E c \in SearchIds, ok \in BOOLEAN : EnsureTableDone(c, ok)
    \/ \E c \in SearchIds, ok \in BOOLEAN : CreateFTSIndexDone(c, ok)
    \/ \E c \in SearchIds, ok \in BOOLEAN, n \in 0..MaxHits : VectorSearchDone(c, ok, n)
    \/ \E c \in SearchIds, ok \in BOOLEAN, n \in 0..MaxHits : FtsSearchDone(c, ok, n)
    \/ \E c \in SearchIds, ok \in BOOLEAN : RerankDone(c, ok)

SearcherSpec == SearcherInit /\ [][SearcherNext]_searcherVars

\* ---------------------------------------------------------------- C12
\* C12: a search does not end by throwing because the table is missing, the
\* FTS index cannot be created, the full-text query fails, there is no
\* candidate, or the worker serving its encode or rerank request is restarted:
\* a search that has thrown has none of these causes.
C12_SearchNeverThrows ==
    \A c \in SearchIds :
        searchCalls[c].pc = "threw" =>
            searchCalls[c].cause \notin {"ensureTable", "createFTSIndex", "fts search",
                                         "no candidates", "worker restart"}

\* ---------------------------------------------------------------- C14
\* C14: createFTSIndex is invoked at most once on one Searcher, whatever the
\* interleaving of its searches and whether or not the invocation fails; it is
\* invoked by the first search that gets its table, and a search that finds
\* the flag set goes on to the vector query without the check.
C14_FtsIndexOneShot ==
    /\ [](createCalls <= 1 /\ (ftsIndexChecked = (createCalls = 1)))
    /\ [][ \A c \in SearchIds :
               (searchCalls[c].pc = "ensureTable" /\ searchCalls'[c].pc # "ensureTable") =>
                   /\ ftsIndexChecked =>
                          /\ createCalls' = createCalls
                          /\ searchCalls'[c].pc \in {"vectorSearch", "returned"}
                   /\ searchCalls'[c].pc = "createFTSIndex" =>
                          /\ ~ftsIndexChecked
                          /\ createCalls' = createCalls + 1
         ]_searcherVars

\* Two searches are past the check while the index creation of the first is
\* still awaited: the second one has skipped it.
C14_Witness ==
    \E a, b \in SearchIds :
        /\ a # b
        /\ searchCalls[a].pc = "createFTSIndex"
        /\ searchCalls[b].pc \in {"vectorSearch", "ftsSearch"}
        /\ createCalls = 1


\* ======================================================================
\* Part 4: what search() computes from the rows it retrieved
\* ======================================================================
\* ------------------------------------------------------------ the store
\* The rows of the table.  A path is kept as its directories and the
\* dot-separated parts of its file name.
FooTs == [dirs |-> <<"src">>, file |-> <<"foo", "ts">>]
FooTestTs == [dirs |-> <<"src", "__tests__">>, file |-> <<"foo", "test", "ts">>]

Rows ==
    <<[id |-> "a", path |-> FooTs, chunk_index |-> 0, is_anchor |-> FALSE, chunk_type |-> "function"],
      [id |-> "b", path |-> FooTs, chunk_index |-> 1, is_anchor |-> TRUE, chunk_type |-> "function"],
      [id |-> "", path |-> FooTestTs, chunk_index |-> 0, is_anchor |-> FALSE, chunk_type |-> "function"],
      [id |-> "", path |-> FooTs, chunk_index |-> 2, is_anchor |-> FALSE, chunk_type |-> "block"],
      [id |-> "", path |-> FooTs, chunk_index |-> 3, is_anchor |-> FALSE, chunk_type |-> "block"]>>
RowIds == DOMAIN Rows

RECURSIVE join(_, _)
join(parts, sep) ==
    IF Len(parts) = 0 THEN ""
    ELSE IF Len(parts) = 1 THEN parts[1]
    ELSE parts[1] \o sep \o join(Tail(parts), sep)

pathString(path) == join(Append(path.dirs, join(path.file, ".")), "/")

\* doc.id || `${doc.path}:${doc.chunk_index}`
keyOfRow(row) ==
    IF row.id # "" THEN row.id
    ELSE pathString(row.path) \o ":" \o ToString(row.chunk_index)

RowKeys == <<keyOfRow(Rows[1]), keyOfRow(Rows[2]), keyOfRow(Rows[3]), keyOfRow(Rows[4]),
            keyOfRow(Rows[5])>>
keyOf(d) == RowKeys[d]

\* A result list of the store: some rows, each at most once.
RowLists ==
    {l \in UNION {[1..n -> RowIds] : n \in 0..MaxList} :
        \A i, j \in 1..Len(l) : i # j => l[i] # l[j]}

\* ----------------------------------------------------------- process.env
\* The strings given to the OSGREP_* variables; "" is what `?? ""` makes of an
\* unset variable.  A parsed number is [nan, v]; parseFloat counts in
\* hundredths.
NaN == [nan |-> TRUE, v |-> 0]
Num(v) == [nan |-> FALSE, v |-> v]
EnvStrings == {"", "abc", "0", "-1", "2"}

parseInt(str) ==
    CASE str = "0" -> Num(0)
      [] str = "-1" -> Num(-1)
      [] str = "2" -> Num(2)
      [] OTHER -> NaN

parseFloat(str) ==
    CASE str = "0" -> Num(0)
      [] str = "-1" -> Num(-100)
      [] str = "2" -> Num(200)
      [] OTHER -> NaN

\* Number.isFinite(x) && x > 0 ? x : dflt
positiveOr(x, dflt) == IF ~x.nan /\ x.v > 0 THEN x.v ELSE dflt
\* Number.isFinite(x) && x >= 0 ? x : dflt
nonNegativeOr(x, dflt) == IF ~x.nan /\ x.v >= 0 THEN x.v ELSE dflt
\* x || dflt: NaN and 0 are falsy
truthyOr(x, dflt) == IF ~x.nan /\ x.v # 0 THEN x.v ELSE dflt

NoTopK == -1                                \* top_k undefined
finalLimitOf(top_k) == IF top_k = NoTopK THEN 10 ELSE top_k

PRE_RERANK_K(e, finalLimit) ==
    positiveOr(parseInt(e["OSGREP_PRE_K"]), Max(finalLimit * 5, 500))
STAGE1_K(e) == positiveOr(parseInt(e["OSGREP_STAGE1_K"]), 200)
STAGE2_K(e) == positiveOr(parseInt(e["OSGREP_STAGE2_K"]), 40)
RERANK_TOP(e) == positiveOr(parseInt(e["OSGREP_RERANK_TOP"]), 20)
FUSED_WEIGHT(e) == nonNegativeOr(parseFloat(e["OSGREP_RERANK_BLEND"]), 50)
MAX_PER_FILE(e) == positiveOr(parseInt(e["OSGREP_MAX_PER_FILE"]), 3)
anchorPenalty(e) == truthyOr(parseFloat(e["OSGREP_ANCHOR_PENALTY"]), 99)
boostFactor(e) == truthyOr(parseFloat(e["OSGREP_CODE_BOOST"]), 105)
testPenalty(e) == truthyOr(parseFloat(e["OSGREP_TEST_PENALTY"]), 90)
docPenalty(e) == truthyOr(parseFloat(e["OSGREP_DOC_PENALTY"]), 85)

\* ------------------------------------------------------------- numbers
\* Scores are exact.  An RRF score 1/(RRF_K + rank + 1) is counted in units of
\* 1/RrfDen, RrfDen being the least common multiple of the denominators that
\* occur.  A blended score is counted in units of 1/(100 RrfDen), a shaped
\* score in units of 1/(10^8 RrfDen) and kept as hi * 1000 + lo.
RRF_K == 60

RECURSIVE gcd(_, _)
gcd(a, b) == IF b = 0 THEN a ELSE gcd(b, a % b)

RECURSIVE lcmUpTo(_)
lcmUpTo(n) ==
    IF n = 0 THEN 1
    ELSE LET l == lcmUpTo(n - 1)
         IN  (l \div gcd(l, RRF_K + n)) * (RRF_K + n)

RrfDen == lcmUpTo(MaxList)

\* score times factor, factor in millionths
times(score, factor) ==
    LET a == score * (factor \div 1000)
        c == score * (factor % 1000)
    IN  [hi |-> a + (c \div 1000), lo |-> c % 1000]

\* Faulty variant: the comparator of an ascending sort, a[1] - b[1].
less(x, y) == x.hi < y.hi \/ (x.hi = y.hi /\ x.lo < y.lo)

\* Faulty variant: of two equal scores the later one goes first.
notLess(x, y) == x.hi > y.hi \/ (x.hi = y.hi /\ x.lo >= y.lo)

\* b.score - a.score > 0: b goes before a
greater(x, y) == x.hi > y.hi \/ (x.hi = y.hi /\ x.lo > y.lo)

\* Array.prototype.sort((a, b) => b.score - a.score): descending and stable.
RECURSIVE insertDesc(_, _)
insertDesc(sorted, x) ==
    IF Len(sorted) = 0 THEN <<x>>
    ELSE IF greater(x.score, sorted[Len(sorted)].score)
         THEN Append(insertDesc(SubSeq(sorted, 1, Len(sorted) - 1), x), sorted[Len(sorted)])
         ELSE Append(sorted, x)

RECURSIVE sortDesc(_)
sortDesc(items) ==
    IF Len(items) = 0 THEN << >>
    ELSE insertDesc(sortDesc(SubSeq(items, 1, Len(items) - 1)), items[Len(items)])

slice(items, n) == SubSeq(items, 1, Min(n, Len(items)))


\* ------------------------------------------------- reciprocal rank fusion
\* Faulty variant: the rank is left out of the score.
rrfScoreNoRank(rank) == RrfDen \div (RRF_K + 1)

\* 1.0 / (RRF_K + rank + 1), rank counted from 0
rrfScore(rank) == RrfDen \div (RRF_K + rank + 1)

\* What the forEach over one list has added to the score of a key.
RECURSIVE listScore(_, _, _)
listScore(list, key, i) ==
    IF i > Len(list) THEN 0
    ELSE (IF keyOf(list[i]) = key THEN rrfScore(i - 1) ELSE 0) + listScore(list, key, i + 1)

\* The keys of a Map in insertion order, after set() of the keys of `list`.
RECURSIVE insertKeys(_, _, _)
insertKeys(keys, list, i) ==
    IF i > Len(list) THEN keys
    ELSE insertKeys(IF \E j \in 1..Len(keys) : keys[j] = keyOf(list[i])
                    THEN keys ELSE Append(keys, keyOf(list[i])),
                    list, i + 1)

\* docMap.get(key): the dense row of the key (the last one set), else the
\* first full-text row of the key.
docOf(key, vectorResults, ftsResults) ==
    LET dense == {i \in 1..Len(vectorResults) : keyOf(vectorResults[i]) = key}
        fts == {i \in 1..Len(ftsResults) : keyOf(ftsResults[i]) = key}
    IN  IF dense # {} THEN vectorResults[CHOOSE i \in dense : \A j \in dense : j <= i]
        ELSE ftsResults[CHOOSE i \in fts : \A j \in fts : i <= j]

candidateScore(key, vectorResults, ftsResults) ==
    listScore(vectorResults, key, 1) + listScore(ftsResults, key, 1)

\* Lines 168-190: the fused list, sorted by total score.
fuse(vectorResults, ftsResults) ==
    LET keys == insertKeys(insertKeys(<< >>, vectorResults, 1), ftsResults, 1)
        entries == [i \in 1..Len(keys) |->
                       [key |-> keys[i],
                        score |-> [hi |-> candidateScore(keys[i], vectorResults, ftsResults),
                                   lo |-> 0]]]
        sorted == sortDesc(entries)
    IN  [i \in 1..Len(sorted) |-> docOf(sorted[i].key, vectorResults, ftsResults)]

\* ----------------------------------------------------------------- stage 1
\* Faulty variant: the prefilter also runs on exactly STAGE2_K candidates.
prefilterRunsAtLimit(queryPooled, n, stage2K) == queryPooled /\ n >= stage2K

\* queryPooled && topCandidates.length > STAGE2_K
prefilterRuns(queryPooled, n, stage2K) == queryPooled /\ n > stage2K

\* The pooled vectors of the rows, as the dot product each has with the query
\* (in hundredths), for the rows that have one.
FlatCosine == [d \in RowIds |-> [has |-> TRUE, dot |-> 0]]
CosineTables ==
    {[d \in RowIds |-> [has |-> TRUE, dot |-> 10 * d]],
     FlatCosine,
     [d \in RowIds |-> [has |-> d % 2 = 0, dot |-> 50 - 10 * d]]}

\* Lines 219-237: candidates sorted by cosine score, the top STAGE2_K kept;
\* a row without a pooled vector scores -1.
prefilter(topCandidates, cosine, stage2K) ==
    LET withScore == [i \in 1..Len(topCandidates) |->
                         [doc |-> topCandidates[i],
                          score |-> [hi |-> IF cosine[topCandidates[i]].has
                                            THEN cosine[topCandidates[i]].dot ELSE -100,
                                     lo |-> 0]]]
        sorted == slice(sortDesc(withScore), stage2K)
    IN  [i \in 1..Len(sorted) |-> sorted[i].doc]

\* ------------------------------------------------------ structural shaping
TestSegments == {"__tests__", "test", "tests", "spec", "specs"}
ScriptExtensions == {"js", "jsx", "ts", "tsx", "cjs", "cjsx", "mjs", "mjsx",
                     "cts", "ctsx", "mts", "mtsx"}
DocExtensions == {"md", "mdx", "txt", "json", "lock"}
BoostedTypes == {"function", "class", "method", "interface", "type_alias"}

\* /(^|\/)(__tests__|tests?|specs?)(\/|$)/ or /\.(test|spec)\.[cm]?[jt]sx?$/
isTestPath(path) ==
    \/ \E i \in 1..Len(path.dirs) : path.dirs[i] \in TestSegments
    \/ Len(path.file) = 1 /\ path.file[1] \in TestSegments
    \/ /\ Len(path.file) >= 3
       /\ path.file[Len(path.file) - 1] \in {"test", "spec"}
       /\ path.file[Len(path.file)] \in ScriptExtensions

\* endsWith .md, .mdx, .txt, .json, .lock, or includes "/docs/"
isDocPath(path) ==
    \/ Len(path.file) >= 2 /\ path.file[Len(path.file)] \in DocExtensions
    \/ \E i \in 2..Len(path.dirs) : path.dirs[i] = "docs"

\* The product of the factors applyStructureBoost multiplies the score by, in
\* millionths.
structureFactor(record, e) ==
    (IF record.is_anchor THEN anchorPenalty(e)
     ELSE IF record.chunk_type \in BoostedTypes THEN boostFactor(e) ELSE 100)
    * (IF isTestPath(record.path) THEN testPenalty(e) ELSE 100)
    * (IF isDocPath(record.path) THEN docPenalty(e) ELSE 100)

applyStructureBoost(record, score, e) == times(score, structureFactor(record, e))

\* --------------------------------------------------------- stage 2, scoring
\* The scores pool.rerank returns, per row, in units of 1/(100 RrfDen).
FlatRerank == [d \in RowIds |-> 0]
RerankTables ==
    {FlatRerank, [d \in RowIds |-> 5000], [d \in RowIds |-> -5000],
     [d \in RowIds |-> 1000 * d]}

\* Faulty variant: the tie-breaker is the whole score.
fallbackScoreIdxOnly(fusedScore, idx) == (100 * RrfDen) \div (idx + 1)

\* Lines 258-264: with rerank disabled the score of a candidate is its fused
\* score, or 1/(idx + 1) should that be 0.
fallbackScore(fusedScore, idx) ==
    IF fusedScore # 0 THEN 100 * fusedScore ELSE (100 * RrfDen) \div (idx + 1)

\* Lines 271-281: base + FUSED_WEIGHT * fusedScore, shaped, sorted descending.
scoreAndSort(rerankCandidates, scores, candidateScores, e) ==
    sortDesc([i \in 1..Len(rerankCandidates) |->
                 LET doc == rerankCandidates[i]
                     blended == scores[i] + FUSED_WEIGHT(e) * candidateScores[keyOf(doc)]
                 IN  [record |-> doc, blended |-> blended,
                      score |-> applyStructureBoost(Rows[doc], blended, e)]])

\* ------------------------------------------------------- diversification
\* Faulty variant: a file at its limit takes one more record.
fileHasRoomInclusive(count, maxPerFile) == count <= maxPerFile

\* count < MAX_PER_FILE
fileHasRoom(count, maxPerFile) == count < maxPerFile

\* Lines 295-303, from item i of `scored`.
RECURSIVE diversify(_, _, _, _, _)
diversify(scored, i, diversified, maxPerFile, finalLimit) ==
    IF i > Len(scored) THEN diversified
    ELSE LET path == Rows[scored[i].record].path
             count == Cardinality({j \in 1..Len(diversified) :
                                      Rows[diversified[j].record].path = path})
             next == IF fileHasRoom(count, maxPerFile) THEN Append(diversified, scored[i])
                     ELSE diversified
         IN  IF Len(next) >= finalLimit THEN next
             ELSE diversify(scored, i + 1, next, maxPerFile, finalLimit)


\* ---------------------------------------------------------------- search
TopKs == {NoTopK, 2}

\* The settings of the environment the searches are run under.
EnvConfigs ==
    {EnvUnset,
     [EnvUnset EXCEPT !["OSGREP_STAGE2_K"] = "2"],
     [EnvUnset EXCEPT !["OSGREP_RERANK_BLEND"] = "0"],
     [EnvUnset EXCEPT !["OSGREP_MAX_PER_FILE"] = "2"],
     [EnvUnset EXCEPT !["OSGREP_ANCHOR_PENALTY"] = "-1"]}

\* search(query, top_k, {rerank}) once both store queries have settled: the
\* full-text query has thrown (ftsResults stays []) or returned its rows.
\* Then lines 168-197: fusion and the cut to STAGE1_K.
RetrieveFor(top_k) ==
    /\ ranking.pc = "idle"
    /\ \E doRerank \in BOOLEAN, vectorResults \in RowLists,
          ftsOk \in BOOLEAN, ftsRows \in RowLists :
        /\ ~ftsOk => ftsRows = << >>
        /\ LET ftsResults == IF ftsOk THEN ftsRows ELSE << >>
               keys == insertKeys(insertKeys(<< >>, vectorResults, 1), ftsResults, 1)
               fused == fuse(vectorResults, ftsResults)
           IN  ranking' = [pc |-> "stage1", top_k |-> top_k, doRerank |-> doRerank,
                           vectorResults |-> vectorResults, ftsFailed |-> ~ftsOk,
                           ftsResults |-> ftsResults,
                           candidateScores |->
                               [k \in {keys[i] : i \in 1..Len(keys)} |->
                                   candidateScore(k, vectorResults, ftsResults)],
                           fused |-> fused,
                           topCandidates |-> slice(fused, STAGE1_K(env)),
                           prefiltered |-> FALSE, stage2Candidates |-> << >>,
                           rerankCandidates |-> << >>, scored |-> << >>, data |-> << >>]
    /\ UNCHANGED <<poolVars, laterVars, embedVars, searcherVars, env>>

Retrieve == \E top_k \in TopKs : RetrieveFor(top_k)

\* Lines 199-244: the pooled-cosine prefilter, the empty return, the cut to
\* RERANK_TOP.
Stage1(queryPooled, cosine) ==
    /\ ranking.pc = "stage1"
    /\ LET runs == prefilterRuns(queryPooled, Len(ranking.topCandidates), STAGE2_K(env))
           stage2Candidates == IF runs
                               THEN prefilter(ranking.topCandidates, cosine, STAGE2_K(env))
                               ELSE ranking.topCandidates
       IN  ranking' = [ranking EXCEPT
              !.pc = IF Len(stage2Candidates) = 0 THEN "done" ELSE "rerank",
              !.prefiltered = runs,
              !.stage2Candidates = stage2Candidates,
              !.rerankCandidates = slice(stage2Candidates, RERANK_TOP(env))]
    /\ UNCHANGED <<poolVars, laterVars, embedVars, searcherVars, env>>

\* Lines 246-315: the scores (from pool.rerank, or the fused scores when rerank
\* is disabled), blending, shaping, the sort, diversification, the result.
Score(table) ==
    /\ ranking.pc = "rerank"
    /\ LET R == ranking.rerankCandidates
           scores == [i \in 1..Len(R) |->
                         IF ranking.doRerank THEN table[R[i]]
                         ELSE fallbackScore(ranking.candidateScores[keyOf(R[i])], i - 1)]
           scored == scoreAndSort(R, scores, ranking.candidateScores, env)
       IN  ranking' = [ranking EXCEPT
              !.pc = "done",
              !.scored = scored,
              !.data = diversify(scored, 1, << >>, MAX_PER_FILE(env),
                                 finalLimitOf(ranking.top_k))]
    /\ UNCHANGED <<poolVars, laterVars, embedVars, searcherVars, env>>

RankInit ==
    /\ PoolIdle /\ EmbedIdle /\ SearcherIdle /\ LaterIdle
    /\ env \in EnvConfigs
    /\ ranking = NoRanking

RankNext ==
    \/ Retrieve
    \/ \E queryPooled \in BOOLEAN, cosine \in CosineTables : Stage1(queryPooled, cosine)
    \/ \E table \in RerankTables : Score(table)

RankSpec == RankInit /\ [][RankNext]_rankVars

\* The place of row d in a list that holds it.
indexOf(list, d) == CHOOSE i \in 1..Len(list) : list[i] = d

\* The rows of the records of a result, in order.
recordsOf(items) == [i \in 1..Len(items) |-> items[i].record]

\* Rows a and b are both in `list`, a before b.
precedes(list, a, b) ==
    \E i, j \in 1..Len(list) : i < j /\ list[i] = a /\ list[j] = b

\* ---------------------------------------------------------------- C13
\* C13 as stated: when the full-text query has thrown, the records of the
\* final result are in the order the dense search returned them.
C13_FinalOrderIsDenseOrder ==
    (ranking.pc = "done" /\ ranking.ftsFailed) =>
        \A i, j \in 1..Len(ranking.data) :
            i < j => precedes(ranking.vectorResults, ranking.data[i].record,
                              ranking.data[j].record)

\* C13, amended: when the full-text query has thrown, the search goes on to
\* fusion with an empty full-text list; every fused score is the dense
\* contribution 1/(60 + rank + 1) alone, the candidates are the dense rows,
\* and the fused list is the dense list in the dense order.
C13_FtsFallback ==
    (ranking.pc # "idle" /\ ranking.ftsFailed) =>
        /\ ranking.ftsResults = << >>
        /\ DOMAIN ranking.candidateScores =
               {keyOf(ranking.vectorResults[i]) : i \in 1..Len(ranking.vectorResults)}
        /\ \A i \in 1..Len(ranking.vectorResults) :
               ranking.candidateScores[keyOf(ranking.vectorResults[i])] * (60 + i) = RrfDen
        /\ ranking.fused = ranking.vectorResults

\* The full-text query threw, the dense search returned several rows, and
\* the search has returned several records.
C13_Witness ==
    /\ ranking.pc = "done"
    /\ ranking.ftsFailed
    /\ Len(ranking.vectorResults) >= 2
    /\ Len(ranking.data) >= 2


\* ---------------------------------------------------------------- C15
\* Row d is in `list`.
inList(list, d) == \E i \in 1..Len(list) : list[i] = d

\* 1/(60 + rank + 1) for the 0-based rank of d in `list`, 0 if d is not in it.
contribution(list, d) ==
    IF inList(list, d) THEN RrfDen \div (60 + (indexOf(list, d) - 1) + 1) ELSE 0

\* C15: the fused score of a candidate is the sum over the two lists of
\* 1/(60 + rank + 1) for its 0-based rank in the list, and of two candidates
\* in both lists the one ranked better in both has the strictly greater fused
\* score and comes first in the fused list.
C15_RrfMonotone ==
    ranking.pc # "idle" =>
        /\ \A d \in RowIds :
               (inList(ranking.vectorResults, d) \/ inList(ranking.ftsResults, d)) =>
                   ranking.candidateScores[keyOf(d)] =
                       contribution(ranking.vectorResults, d)
                       + contribution(ranking.ftsResults, d)
        /\ \A a, b \in RowIds :
               (/\ precedes(ranking.vectorResults, a, b)
                /\ precedes(ranking.ftsResults, a, b)) =>
                   /\ ranking.candidateScores[keyOf(a)] > ranking.candidateScores[keyOf(b)]
                   /\ precedes(ranking.fused, a, b)

\* Two candidates are in both lists, one ranked better than the other in both.
C15_Witness ==
    /\ ranking.pc # "idle"
    /\ \E a, b \in RowIds :
           /\ precedes(ranking.vectorResults, a, b)
           /\ precedes(ranking.ftsResults, a, b)

\* ---------------------------------------------------------------- C16
\* C16: when the fused candidates cut to STAGE1_K number at most STAGE2_K, the
\* pooled-cosine prefilter has not run and the input of stage 2 is the list of
\* those candidates, in their order.
C16_Stage1Skip ==
    (ranking.pc \in {"rerank", "done"}
     /\ Len(ranking.topCandidates) <= STAGE2_K(env)) =>
        /\ ~ranking.prefiltered
        /\ ranking.stage2Candidates = ranking.topCandidates

\* Stage 1 is over for exactly STAGE2_K candidates, several of them.
C16_Witness ==
    /\ ranking.pc \in {"rerank", "done"}
    /\ Len(ranking.topCandidates) = STAGE2_K(env)
    /\ Len(ranking.topCandidates) >= 2
    /\ ranking.stage2Candidates = ranking.topCandidates

\* ---------------------------------------------------------------- C17
\* The records of `items` whose path is that of row d.
ofPathOf(items, d) == {i \in 1..Len(items) : Rows[items[i].record].path = Rows[d].path}

\* C17: the final result of a search holds at most MAX_PER_FILE records of
\* any one path.
C17_AtMostMaxPerFile ==
    ranking.pc = "done" =>
        \A d \in RowIds :
            Cardinality(ofPathOf(ranking.data, d)) <= MAX_PER_FILE(env)

\* With MAX_PER_FILE at its default of 3, four scored candidates share a path
\* and the result holds three of them.
C17_Witness ==
    /\ ranking.pc = "done"
    /\ env["OSGREP_MAX_PER_FILE"] = ""
    /\ \E d \in RowIds :
           /\ Cardinality(ofPathOf(ranking.scored, d)) = 4
           /\ Cardinality(ofPathOf(ranking.data, d)) = 3

\* ---------------------------------------------------------------- C18
\* C18 as stated: with rerank disabled, any two returned records are in the
\* relative order they have in the fused list.
C18_FusedOrderKept ==
    (ranking.pc = "done" /\ ~ranking.doRerank) =>
        \A i, j \in 1..Len(ranking.data) :
            i < j => precedes(ranking.fused, ranking.data[i].record,
                              ranking.data[j].record)

\* The fused score of row d times the factor applyStructureBoost gives it.
shapedFused(d) == times(ranking.candidateScores[keyOf(d)], structureFactor(Rows[d], env))

\* C18, amended: with rerank disabled, the returned records are in descending
\* order of fused score times structural factor.
C18_ShapedFusedOrder ==
    (ranking.pc = "done" /\ ~ranking.doRerank) =>
        \A i, j \in 1..Len(ranking.data) :
            i < j => ~greater(shapedFused(ranking.data[j].record),
                              shapedFused(ranking.data[i].record))

\* A search with rerank disabled has returned two records in the reverse of
\* their fused order.
C18_Witness ==
    /\ ranking.pc = "done"
    /\ ~ranking.doRerank
    /\ \E i, j \in 1..Len(ranking.data) :
           i < j /\ precedes(ranking.fused, ranking.data[j].record, ranking.data[i].record)

\* ---------------------------------------------------------------- C19
\* Rows a and b differ only in an attribute that is penalised in b: they are
\* of one path and b is the anchor, or b is on a test path and a is not.
penalisedIn(a, b) ==
    /\ Rows[a].chunk_type = Rows[b].chunk_type
    /\ \/ /\ Rows[a].path = Rows[b].path
          /\ ~Rows[a].is_anchor /\ Rows[b].is_anchor
       \/ /\ Rows[a].is_anchor = Rows[b].is_anchor
          /\ ~isTestPath(Rows[a].path) /\ isTestPath(Rows[b].path)
          /\ isDocPath(Rows[a].path) = isDocPath(Rows[b].path)

\* C19: under the default environment, of two reranked records with the same
\* rerank score and the same blended score that differ only in a penalised
\* attribute, the unpenalised one is returned first, whatever the score is.
C19_UnpenalisedFirst ==
    (ranking.pc = "done" /\ ranking.doRerank /\ env = EnvUnset) =>
        \A i, j \in 1..Len(ranking.data) :
            (/\ penalisedIn(ranking.data[i].record, ranking.data[j].record)
             /\ ranking.data[i].blended = ranking.data[j].blended) => i < j

\* ---------------------------------------------------------------- C20
\* A value that is unset, not numeric, zero or negative.
invalid(str) == str \in {"", "abc", "0", "-1"}

\* C20: a search run with an OSGREP_* variable that is unset, not numeric,
\* zero or negative has used the default of the constant: max(5 * limit, 500),
\* 200, 40, 20, 0.5, 3, 0.99, 1.05, 0.9, 0.85.
C20_InvalidGivesDefault ==
    ranking.pc = "done" =>
        /\ invalid(env["OSGREP_PRE_K"]) =>
               PRE_RERANK_K(env, finalLimitOf(ranking.top_k))
                   = Max(5 * finalLimitOf(ranking.top_k), 500)
        /\ invalid(env["OSGREP_STAGE1_K"]) => STAGE1_K(env) = 200
        /\ invalid(env["OSGREP_STAGE2_K"]) => STAGE2_K(env) = 40
        /\ invalid(env["OSGREP_RERANK_TOP"]) => RERANK_TOP(env) = 20
        /\ invalid(env["OSGREP_RERANK_BLEND"]) => FUSED_WEIGHT(env) = 50
        /\ invalid(env["OSGREP_MAX_PER_FILE"]) => MAX_PER_FILE(env) = 3
        /\ invalid(env["OSGREP_ANCHOR_PENALTY"]) => anchorPenalty(env) = 99
        /\ invalid(env["OSGREP_CODE_BOOST"]) => boostFactor(env) = 105
        /\ invalid(env["OSGREP_TEST_PENALTY"]) => testPenalty(env) = 90
        /\ invalid(env["OSGREP_DOC_PENALTY"]) => docPenalty(env) = 85


\* ======================================================================
\* Part 5: the meta store (src/src/lib/download-worker.ts, class MetaStore)
\* ======================================================================
\* ------------------------------------------------------- normalizeEntry
\* The value of a member a JSON object does not have.
Undefined == [t |-> "undefined", s |-> "", n |-> 0, fields |-> << >>]

\* value.f for a value that is not null: a number has no members.
member(value, f) ==
    IF value.t = "object" /\ f \in DOMAIN value.fields THEN value.fields[f] ELSE Undefined

\* typeof v === "number" && Number.isFinite(v) ? v : 0
finiteOrZero(v) == IF v.t = "number" THEN v.n ELSE 0

Returned(entry) == [threw |-> FALSE, entry |-> entry]
TypeError == [threw |-> TRUE, entry |-> [hash |-> "", mtimeMs |-> 0, size |-> 0]]

\* normalizeEntry(value), lines 74-90.  Reading value.hash of null throws.
normalizeEntry(value) ==
    IF value.t = "string" THEN Returned([hash |-> value.s, mtimeMs |-> 0, size |-> 0])
    ELSE IF value.t = "null" THEN TypeError
    ELSE Returned([hash |-> IF member(value, "hash").t = "string"
                            THEN member(value, "hash").s ELSE "",
                   mtimeMs |-> finiteOrZero(member(value, "mtimeMs")),
                   size |-> finiteOrZero(member(value, "size"))])

\* ------------------------------------------------------------------ load
\* loadFile(p), lines 100-103: readFile throws on an absent file, JSON.parse
\* on text that is not JSON.
loadFile(file) == [threw |-> file.kind # "json", raw |-> file.value]

\* Object.fromEntries(Object.entries(raw).map(normalizeEntry)), lines 107-111:
\* Object.entries(null) throws, a number has no entries.
fromEntries(raw) ==
    IF raw.t = "null" THEN [threw |-> TRUE, map |-> << >>]
    ELSE LET normal == [k \in DOMAIN raw.fields |-> normalizeEntry(raw.fields[k])]
         IN  IF \E k \in DOMAIN normal : normal[k].threw
             THEN [threw |-> TRUE, map |-> << >>]
             ELSE [threw |-> FALSE, map |-> [k \in DOMAIN normal |-> normal[k].entry]]

\* What the try block of lines 105-111, or of lines 118-123, makes of a file.
tryLoad(file) ==
    IF loadFile(file).threw THEN [threw |-> TRUE, map |-> << >>]
    ELSE fromEntries(loadFile(file).raw)

\* load() up to `await loadFile(META_FILE)`.
Load ==
    /\ loadCall.pc = "idle"
    /\ metaStore' = [metaStore EXCEPT !.loadCall.pc = IF loaded THEN "done" ELSE "readMain"]
    /\ UNCHANGED outsideMeta

\* The read of the main file settles: lines 106-111, or the catch of line 112
\* up to `await loadFile(tmpFile)`.
ReadMainDone ==
    /\ loadCall.pc = "readMain"
    /\ LET main == tryLoad(metaFile)
       IN  metaStore' =
               IF ~main.threw
               THEN [metaStore EXCEPT !.data = main.map,
                                      !.loaded = TRUE,
                                      !.loadCall.pc = "done", !.loadCall.from = "main"]
               ELSE IF tmpFile.kind # "absent"
               THEN [metaStore EXCEPT !.loadCall.pc = "readTmp"]
               ELSE [metaStore EXCEPT !.data = << >>,
                                      !.loaded = TRUE,
                                      !.loadCall.pc = "done", !.loadCall.from = "empty"]
    /\ UNCHANGED outsideMeta

\* The read of the tmp file settles: lines 118-125 up to `await copyFile`, or
\* the catch of line 129.
ReadTmpDone ==
    /\ loadCall.pc = "readTmp"
    /\ LET tmp == tryLoad(tmpFile)
       IN  metaStore' =
               IF ~tmp.threw
               THEN [metaStore EXCEPT !.data = tmp.map,
                                      !.loadCall.pc = "copyFile"]
               ELSE [metaStore EXCEPT !.data = << >>,
                                      !.loaded = TRUE,
                                      !.loadCall.pc = "done", !.loadCall.from = "empty"]
    /\ UNCHANGED outsideMeta

\* copyFile(tmpFile, META_FILE) settles.  A copy that fails (no space, no
\* permission) leaves the main file as it was or partly written, and is
\* caught at line 129.
CopyFileDone(ok, partly) ==
    /\ loadCall.pc = "copyFile"
    /\ ok => ~partly
    /\ metaStore' =
           IF ok
           THEN [metaStore EXCEPT !.metaFile = tmpFile,
                                  !.loadCall.pc = "done", !.loadCall.from = "tmp",
                                  !.loaded = TRUE]
           ELSE [metaStore EXCEPT !.metaFile = IF partly THEN Garbled ELSE @,
                                  !.data = << >>,
                                  !.loadCall.pc = "done", !.loadCall.from = "empty",
                                  !.loaded = TRUE]
    /\ UNCHANGED outsideMeta

\* ------------------------------------------------------- files to load
MetaKeys == {"k1", "k2"}
FieldNames == {"hash", "mtimeMs", "size", "extra"}
FieldValues == {JStr("h1"), JNum(7), JInf, JNull}
RawObjects == {JObj(m) : m \in UNION {[F -> FieldValues] : F \in SUBSET FieldNames}}
RawValues == RawObjects \cup {JStr("h0"), JNum(3), JNull}
GoodObject == JObj([f \in {"hash", "mtimeMs", "size"} |->
                       IF f = "hash" THEN JStr("h2") ELSE JNum(5)])
SiblingValues == {GoodObject, JStr("h0")}

oneKey(k, v) == [x \in {k} |-> v]
twoKeys(v1, v2) == [x \in MetaKeys |-> IF x = "k1" THEN v1 ELSE v2]

\* The documents: "k1" with any value or absent, "k2" with a well-formed
\* value or absent.
Documents ==
    {JObj(<< >>)}
        \cup {JObj(oneKey("k1", v)) : v \in RawValues}
        \cup {JObj(oneKey("k2", v)) : v \in SiblingValues}
        \cup {JObj(twoKeys(v1, v2)) : v1 \in RawValues, v2 \in SiblingValues}

AllFiles == {Absent, Garbled, Json(JNull)} \cup {Json(d) : d \in Documents}
FewFiles == {Absent, Garbled, Json(JNull),
             Json(JObj(twoKeys(GoodObject, JStr("h0")))),
             Json(JObj(twoKeys(JNull, GoodObject)))}

\* A fresh MetaStore over the files a former process left.
LoadInit ==
    /\ PoolIdle /\ EmbedIdle /\ SearcherIdle /\ RankIdle /\ FileIdle
    /\ \/ \E main \in AllFiles, tmp \in FewFiles : metaStore = FreshStore(main, tmp)
       \/ \E main \in FewFiles, tmp \in AllFiles : metaStore = FreshStore(main, tmp)

LoadNext ==
    \/ Load
    \/ ReadMainDone
    \/ ReadTmpDone
    \/ \E ok, partly \in BOOLEAN : CopyFileDone(ok, partly)

LoadSpec == LoadInit /\ [][LoadNext]_metaVars

\* ------------------------------------------------------------------ save
META_FILE == "meta.json"

\* Faulty variant: the snapshot is written over the main file itself.
inPlace(metaPath) == metaPath

\* `${META_FILE}.tmp`
tmpFileOf(metaPath) == metaPath \o ".tmp"

\* JSON.stringify(this.data, null, 2)
stringify(map) ==
    JObj([k \in DOMAIN map |->
             JObj([f \in {"hash", "mtimeMs", "size"} |->
                      IF f = "hash" THEN JStr(map[k].hash) ELSE JNum(map[k][f])])])

\* The promise of save call c; call 0 stands for the Promise.resolve() the
\* queue starts as.
promiseOf(c) ==
    IF c = 0 THEN "resolved"
    ELSE IF saves[c].pc \in {"resolved", "rejected"} THEN saves[c].pc
    ELSE "pending"

\* Faulty variant: the body is not chained on the queue.
unchained(state) == "resolved"

\* Faulty variant: the queue is chained on without the catch.
notRecovered(state) == state

\* saveQueue.catch(handler): settles when the queue does, and resolves, the
\* handler returning nothing.
recovered(state) == IF state = "pending" THEN "pending" ELSE "resolved"

\* The record of the saves once the keys `keys` of the map were changed: a
\* save that was called and has not serialized the map yet notes them as
\* touched since the call.
noted(S, keys) ==
    [c \in DOMAIN S |->
        IF S[c].pc \in {"queued", "mkdir"} THEN [S[c] EXCEPT !.touched = @ \cup keys]
        ELSE S[c]]

\* A save that has settled: what it noted since the call is of no use any more.
forgotten(save) == [save EXCEPT !.atCall = << >>, !.touched = {}]

\* Faulty variant: the text written is that of the map save() was called on.
serializedAtCall(atCall, now) == stringify(atCall)

\* JSON.stringify(this.data, null, 2) of line 149: the map as it is when
\* writeFile is called, not as it was when save() was called.
serialized(atCall, now) == stringify(now)

\* The file at `path` becomes `file`.
put(meta, path, file) ==
    [meta EXCEPT !.metaFile = IF path = META_FILE THEN file ELSE @,
                 !.tmpFile = IF path = tmpFileOf(META_FILE) THEN file ELSE @]

fileAt(path) == IF path = META_FILE THEN metaFile ELSE tmpFile

\* save(): the body is chained on the queue and the queue becomes its promise.
Save(c) ==
    /\ killed = << >>
    /\ saves[c].pc = "idle"
    /\ IF c = 1 THEN TRUE ELSE saves[c - 1].pc # "idle"
    /\ metaStore' = [metaStore EXCEPT !.saves[c].pc = "queued",
                                      !.saves[c].prev = saveQueue,
                                      !.saves[c].atCall = data,
                                      !.saveQueue = c]
    /\ UNCHANGED outsideMeta

\* The promise chained on has settled: the body starts, up to `await mkdir`.
\* A rejection that reaches the then() is passed on.
SaveStart(c) ==
    /\ saves[c].pc = "queued"
    /\ recovered(promiseOf(saves[c].prev)) # "pending"
    /\ metaStore' = IF recovered(promiseOf(saves[c].prev)) = "resolved"
                    THEN [metaStore EXCEPT !.saves[c].pc = "mkdir"]
                    ELSE [metaStore EXCEPT !.saves[c] = forgotten(@), !.saves[c].pc = "rejected",
                                           !.saves[c].error = saves[saves[c].prev].error]
    /\ UNCHANGED outsideMeta

\* mkdir settles; then this.data is serialized and writeFile is called.
MkdirDone(c, ok) ==
    /\ saves[c].pc = "mkdir"
    /\ metaStore' = IF ok THEN [metaStore EXCEPT !.saves[c].pc = "writeFile",
                                                 !.saves[c].content =
                                                     serialized(saves[c].atCall, data),
                                                 !.dirty = FALSE]
                    ELSE [metaStore EXCEPT !.saves[c] = forgotten(@), !.saves[c].pc = "rejected",
                                           !.saves[c].error = c]
    /\ UNCHANGED outsideMeta

\* writeFile opens its file, which cuts it to length 0, and writes a part of
\* the text; or the open fails.
WriteBegun(c, ok) ==
    /\ saves[c].pc = "writeFile"
    /\ metaStore' =
           IF ok
           THEN [put(metaStore, tmpFileOf(META_FILE), Garbled) EXCEPT
                     !.saves[c].pc = "writing"]
           ELSE [metaStore EXCEPT !.saves[c] = forgotten(@), !.saves[c].pc = "rejected", !.saves[c].error = c]
    /\ UNCHANGED outsideMeta

\* writeFile settles: the text is complete, or the write failed part-way.
WriteDone(c, ok) ==
    /\ saves[c].pc = "writing"
    /\ metaStore' =
           IF ok
           THEN [put(metaStore, tmpFileOf(META_FILE), Json(saves[c].content)) EXCEPT
                     !.saves[c].pc = "rename"]
           ELSE [metaStore EXCEPT !.saves[c] = forgotten(@), !.saves[c].pc = "rejected", !.saves[c].error = c]
    /\ UNCHANGED outsideMeta

\* rename(tmpFile, META_FILE) settles: done at once and whole, or failed; it
\* fails when there is no file to rename.
RenameDone(c, ok) ==
    /\ saves[c].pc = "rename"
    /\ ok => fileAt(tmpFileOf(META_FILE)).kind # "absent"
    /\ metaStore' =
           IF ok
           THEN [metaStore EXCEPT
                     !.metaFile = fileAt(tmpFileOf(META_FILE)),
                     !.tmpFile = IF tmpFileOf(META_FILE) = META_FILE THEN @ ELSE Absent,
                     !.saves[c] = forgotten(@), !.saves[c].pc = "resolved"]
           ELSE [metaStore EXCEPT !.saves[c] = forgotten(@), !.saves[c].pc = "rejected", !.saves[c].error = c]
    /\ UNCHANGED outsideMeta

MetaEntries == {[hash |-> "h1", mtimeMs |-> 1, size |-> 1],
                [hash |-> "h2", mtimeMs |-> 2, size |-> 2]}

\* set(filePath, entry)
Set(filePath, entry) ==
    /\ killed = << >>
    /\ LET next == [k \in DOMAIN data \cup {filePath} |->
                       IF k = filePath THEN entry ELSE data[k]]
       IN  /\ next # data
           /\ metaStore' = [metaStore EXCEPT !.data = next,
                                             !.saves = noted(@, {filePath}),
                                             !.dirty = TRUE]
    /\ UNCHANGED outsideMeta

\* delete(filePath)
Delete(filePath) ==
    /\ killed = << >>
    /\ filePath \in DOMAIN data
    /\ metaStore' = [metaStore EXCEPT
                         !.data = [k \in DOMAIN data \ {filePath} |-> data[k]],
                         !.saves = noted(@, {filePath}),
                         !.dirty = TRUE]
    /\ UNCHANGED outsideMeta

\* The process is killed: its memory is gone, the files stay as they are, and
\* the next process starts with a fresh MetaStore.
Kill ==
    /\ killed = << >>
    /\ metaStore' = [metaStore EXCEPT !.killed = [c \in SaveIds |-> saves[c]],
                                      !.data = << >>,
                                      !.dirty = FALSE,
                                      !.loaded = FALSE,
                                      !.saveQueue = 0,
                                      !.saves = [c \in SaveIds |-> NoSave]]
    /\ UNCHANGED outsideMeta

\* A MetaStore over no main file or over the snapshot a former process saved;
\* it makes changes and saves them, is killed at some point, and the next
\* process loads.
MetaInit ==
    /\ PoolIdle /\ EmbedIdle /\ SearcherIdle /\ RankIdle /\ FileIdle
    /\ \E main \in {Absent,
                     Json(stringify(oneKey("k2", CHOOSE e \in MetaEntries : e.size = 2)))} :
           metaStore = FreshStore(main, Absent)

MetaNext ==
    \/ \E c \in SaveIds : Save(c)
    \/ \E c \in SaveIds : SaveStart(c)
    \/ \E c \in SaveIds, ok \in BOOLEAN : MkdirDone(c, ok)
    \/ \E c \in SaveIds, ok \in BOOLEAN : WriteBegun(c, ok)
    \/ \E c \in SaveIds, ok \in BOOLEAN : WriteDone(c, ok)
    \/ \E c \in SaveIds, ok \in BOOLEAN : RenameDone(c, ok)
    \/ \E entry \in MetaEntries : Set("k1", entry)
    \/ Kill
    \/ killed # << >> /\ Load
    \/ ReadMainDone
    \/ ReadTmpDone
    \/ \E ok, partly \in BOOLEAN : CopyFileDone(ok, partly)

MetaSpec == MetaInit /\ [][MetaNext]_metaVars

\* ---------------------------------------------------------------- C21
\* The saves whose body is between its start and its end.
running == {c \in SaveIds : saves[c].pc \in {"mkdir", "writeFile", "writing", "rename"}}

\* C21: at most one save is at its mkdir, write or rename at any time, and a
\* save starts these steps only after every save called before it has
\* finished them, so the steps of the saves run in the order of the calls.
C21_SavesSerialized ==
    /\ Cardinality(running) <= 1
    /\ \A c, d \in SaveIds :
           (c < d /\ saves[d].pc \notin {"idle", "queued"}) =>
               saves[c].pc \in {"resolved", "rejected"}

\* Two saves were called together: the first is writing the tmp file, the
\* second waits in the queue.
C21_Witness ==
    \E c, d \in SaveIds :
        c < d /\ saves[c].pc = "writing" /\ saves[d].pc = "queued"

\* ---------------------------------------------------------------- C22
\* A continuation whose promise has settled is run, and every file system
\* call settles, well or badly.
MetaFairSpec ==
    /\ MetaSpec
    /\ \A c \in SaveIds :
           /\ WF_metaVars(SaveStart(c))
           /\ WF_metaVars(\E ok \in BOOLEAN : MkdirDone(c, ok))
           /\ WF_metaVars(\E ok \in BOOLEAN : WriteBegun(c, ok))
           /\ WF_metaVars(\E ok \in BOOLEAN : WriteDone(c, ok))
           /\ WF_metaVars(\E ok \in BOOLEAN : RenameDone(c, ok))

\* C22: a save is rejected only with the error of its own mkdir, write or
\* rename, and every save that was called comes to run and to settle
\* (unless the process is killed first), whatever saves failed before it.
C22_QueueSelfHeals ==
    /\ [](\A c \in SaveIds : saves[c].pc = "rejected" => saves[c].error = c)
    /\ \A c \in SaveIds :
           (saves[c].pc = "queued")
               ~> (saves[c].pc \in {"resolved", "rejected"} \/ killed # << >>)

\* A save has succeeded that was queued behind a save that failed.
C22_Witness ==
    \E c \in SaveIds :
        /\ saves[c].pc = "resolved"
        /\ saves[c].prev # 0
        /\ saves[saves[c].prev].pc = "rejected"

\* ---------------------------------------------------------------- C23
\* The complete snapshots there have been: the main file the process found
\* and the texts its saves serialized.
snapshots(S) ==
    {loadCall.main} \cup {Json(S[c].content) : c \in {d \in SaveIds : S[d].content # JNull}}

\* C23: at every point of the saves, and after a kill at that point until the
\* next process promotes a tmp file, the main file is absent or holds a
\* complete earlier snapshot, never a part of one; and the load() of the next
\* process ends with the empty map or with the map of a complete snapshot.
C23_CrashSafe ==
    /\ loadCall.pc \in {"idle", "readMain", "readTmp"} =>
           metaFile \in {Absent} \cup snapshots(IF killed = << >> THEN saves ELSE killed)
    /\ (killed # << >> /\ loadCall.pc = "done") =>
           /\ loaded
           /\ data = << >> \/ Json(stringify(data)) \in snapshots(killed)

\* The process was killed after a save wrote the tmp file and before it
\* renamed it; the next process found no main file and loaded the tmp file.
C23_Witness ==
    /\ killed # << >>
    /\ \E c \in SaveIds : killed[c].pc = "rename"
    /\ loadCall.pc = "done"
    /\ loadCall.from = "tmp"
    /\ data # << >>

\* ---------------------------------------------------------------- C24
\* C24: load() over a main file that is missing or does not parse: when the
\* tmp file exists and loads, the map is the normalized content of the tmp
\* file and the main file has become a copy of the tmp file; when the tmp file
\* is absent or does not load either, the map is empty.
C24_RecoversFromTmp ==
    (loadCall.pc = "done" /\ loadCall.main.kind # "json") =>
        /\ loaded
        /\ IF ~tryLoad(loadCall.tmp).threw
           THEN /\ data = tryLoad(loadCall.tmp).map
                /\ metaFile = loadCall.tmp
           ELSE data = << >>

\* ---------------------------------------------------------------- C25
\* The entry a raw value is to load as: a string s as {hash: s, 0, 0}; of an
\* object its string hash, else "", and its finite mtimeMs and size, else 0.
expectedEntry(v) ==
    LET has(f, type) == f \in DOMAIN v.fields /\ v.fields[f].t = type
    IN  IF v.t = "string" THEN [hash |-> v.s, mtimeMs |-> 0, size |-> 0]
        ELSE [hash |-> IF has("hash", "string") THEN v.fields["hash"].s ELSE "",
              mtimeMs |-> IF has("mtimeMs", "number") THEN v.fields["mtimeMs"].n ELSE 0,
              size |-> IF has("size", "number") THEN v.fields["size"].n ELSE 0]

\* C25: after load() of a main file that parses to an object, every string or
\* object entry of the file is in the map in its normal form, whatever the
\* other entries of the file are, and the map holds nothing else.
C25_EntriesNormalized ==
    (loadCall.pc = "done" /\ loadCall.main.kind = "json"
     /\ loadCall.main.value.t = "object") =>
        LET raw == loadCall.main.value.fields
        IN  /\ \A k \in DOMAIN raw :
                   raw[k].t \in {"string", "object"} =>
                       k \in DOMAIN data /\ data[k] = expectedEntry(raw[k])
            /\ \A k \in DOMAIN data : k \in DOMAIN raw

\* -------------------------------------------------------- deleteByPrefix
\* Keys and prefixes are strings of characters, kept as sequences; path.sep
\* is the separator of POSIX.
sep == "/"
PathChars == {sep, "a"}
Strings == UNION {[1..n -> PathChars] : n \in 0..MaxKeyLen}

startsWith(str, prefix) ==
    Len(prefix) <= Len(str) /\ SubSeq(str, 1, Len(prefix)) = prefix

endsWith(str, suffix) ==
    Len(suffix) <= Len(str)
    /\ SubSeq(str, Len(str) - Len(suffix) + 1, Len(str)) = suffix

\* Faulty variant: the prefix is used as it is given.
rawPrefix(prefix) == prefix

\* prefix.endsWith(path.sep) ? prefix : prefix + path.sep
normalizedPrefix(prefix) == IF endsWith(prefix, <<sep>>) THEN prefix ELSE prefix \o <<sep>>

\* deleteByPrefix(prefix), lines 169-176
DeleteByPrefix(prefix) ==
    /\ metaStore' =
           [metaStore EXCEPT
                !.data = [k \in {key \in DOMAIN data :
                                    ~startsWith(key, normalizedPrefix(prefix))} |-> data[k]],
                !.saves = noted(@, {key \in DOMAIN data :
                                       startsWith(key, normalizedPrefix(prefix))}),
                !.dirty = @ \/ \E key \in DOMAIN data :
                                   startsWith(key, normalizedPrefix(prefix)),
                !.deleteCall = [prefix |-> prefix, before |-> data, calls |-> 1]]
    /\ UNCHANGED outsideMeta

\* The maps of up to MaxKeys keys.
RECURSIVE keySetsUpTo(_)
keySetsUpTo(n) ==
    IF n = 0 THEN {{}}
    ELSE keySetsUpTo(n - 1) \cup {K \cup {k} : K \in keySetsUpTo(n - 1), k \in Strings}

KeySets == keySetsUpTo(MaxKeys)

PrefixInit ==
    /\ PoolIdle /\ EmbedIdle /\ SearcherIdle /\ RankIdle /\ FileIdle
    /\ \E K \in KeySets :
           metaStore = [FreshStore(Absent, Absent) EXCEPT
                            !.data = [k \in K |-> CHOOSE e \in MetaEntries : e.size = 1],
                            !.loaded = TRUE]

PrefixNext == \E prefix \in Strings : DeleteByPrefix(prefix)

PrefixSpec == PrefixInit /\ [][PrefixNext]_metaVars

\* The prefix as a directory: the separator is appended unless it is there.
asDirectory(p) == IF p # << >> /\ p[Len(p)] = sep THEN p ELSE Append(p, sep)

\* C26: deleteByPrefix(prefix) removes exactly the keys that start with the
\* prefix followed by the separator (appended only when the prefix does not
\* end with it); every other key keeps its entry, in particular the key
\* equal to a prefix given without the separator and a sibling key that
\* shares the string prefix only.
C26_RemovesExactlyTheDirectory ==
    deleteCall.calls = 1 =>
        LET before == deleteCall.before
            prefix == deleteCall.prefix
        IN  /\ DOMAIN data =
                   {k \in DOMAIN before : ~startsWith(k, asDirectory(prefix))}
            /\ \A k \in DOMAIN data : data[k] = before[k]
            /\ (prefix \in DOMAIN before /\ ~endsWith(prefix, <<sep>>)) =>
                   prefix \in DOMAIN data
            /\ \A k \in DOMAIN before :
                   (/\ ~endsWith(prefix, <<sep>>)
                    /\ startsWith(k, prefix)
                    /\ Len(k) > Len(prefix)
                    /\ k[Len(prefix) + 1] # sep) => k \in DOMAIN data

\* The directory "a" is deleted from a map holding its file "a/a" and the
\* sibling "aa": the file is gone and the sibling is kept.
C26_Witness ==
    /\ deleteCall.calls = 1
    /\ deleteCall.prefix = <<"a">>
    /\ DOMAIN deleteCall.before = {<<"a", sep, "a">>, <<"a", "a">>}
    /\ DOMAIN data = {<<"a", "a">>}

(***************************************************************************)
(* Part 6: traversal and ignore rules (src/src/lib/file.ts, class          *)
(* NodeFileSystem).  A path is a string of characters, kept as a sequence; *)
(* the platform is POSIX.  A path handed to the class is absolute, so      *)
(* that path.resolve does not consult the working directory.               *)
(***************************************************************************)
dot == "."

\* str.split(path.sep): the pieces between separators, empty ones included.
RECURSIVE split(_)
split(str) ==
    IF \A i \in DOMAIN str : str[i] # sep THEN <<str>>
    ELSE LET i == CHOOSE j \in DOMAIN str :
                      str[j] = sep /\ \A h \in 1..(j - 1) : str[h] # sep
         IN  <<SubSeq(str, 1, i - 1)>> \o split(SubSeq(str, i + 1, Len(str)))

\* segments.join(path.sep)
RECURSIVE joinSegments(_)
joinSegments(segs) ==
    IF segs = << >> THEN << >>
    ELSE IF Len(segs) = 1 THEN segs[1]
    ELSE segs[1] \o <<sep>> \o joinSegments(Tail(segs))

\* path.join(dir, name) for a name read from a directory
pathJoin(dir, name) == dir \o <<sep>> \o name

\* path.resolve of an absolute path: empty and "." segments are dropped,
\* ".." drops the segment before it and is dropped itself at the top.
RECURSIVE normalizeString(_, _)
normalizeString(segs, acc) ==
    IF segs = << >> THEN acc
    ELSE LET s == Head(segs)
         IN  normalizeString(Tail(segs),
                 IF s = << >> \/ s = <<dot>> THEN acc
                 ELSE IF s = <<dot, dot>>
                      THEN IF acc = << >> THEN acc ELSE SubSeq(acc, 1, Len(acc) - 1)
                      ELSE Append(acc, s))

resolve(p) == normalizeString(split(p), << >>)

\* The length of the longest common prefix of two lists of segments.
RECURSIVE commonLength(_, _)
commonLength(f, t) ==
    IF f = << >> \/ t = << >> \/ Head(f) # Head(t) THEN 0
    ELSE 1 + commonLength(Tail(f), Tail(t))

\* path.relative(from, to): ".." for every segment of `from` below the
\* common directory, then the segments of `to` below it.
relative(from, to) ==
    LET f == resolve(from)
        t == resolve(to)
        c == commonLength(f, t)
    IN  joinSegments([i \in 1..(Len(f) - c) |-> <<dot, dot>>] \o SubSeq(t, c + 1, Len(t)))

\* Faulty variant: no path counts as hidden.
neverHidden(filePath, root) == FALSE

\* isHiddenFile(filePath, root), lines 57-63
isHiddenFile(filePath, root) ==
    LET parts == split(relative(root, filePath))
    IN  \E i \in DOMAIN parts :
            /\ startsWith(parts[i], <<dot>>)
            /\ parts[i] # <<dot>>
            /\ parts[i] # <<dot, dot>>

\* The canonical path of the directory above a canonical path.
parent(c) ==
    LET segs == resolve(c)
    IN  IF segs = << >> THEN << >>
        ELSE <<sep>> \o joinSegments(SubSeq(segs, 1, Len(segs) - 1))

NotFound == [found |-> FALSE, path |-> << >>]
Found(c) == [found |-> TRUE, path |-> c]

isDir(c) == c = << >> \/ c = <<sep>> \/ c \in disk.dirs

\* One step of path resolution by the operating system, from the real
\* directory `cur` through the segment `seg`.
enter(cur, seg) ==
    IF ~cur.found \/ ~isDir(cur.path) THEN NotFound
    ELSE IF seg = << >> \/ seg = <<dot>> THEN cur
    ELSE IF seg = <<dot, dot>> THEN Found(parent(cur.path))
    ELSE LET cand == (IF cur.path = <<sep>> THEN << >> ELSE cur.path) \o <<sep>> \o seg
         IN  IF cand \in DOMAIN disk.links
             THEN IF disk.links[cand] \in disk.dirs \cup disk.files
                  THEN Found(disk.links[cand]) ELSE NotFound
             ELSE IF cand \in disk.dirs \cup disk.files THEN Found(cand)
             ELSE NotFound

RECURSIVE through(_, _)
through(cur, segs) ==
    IF segs = << >> THEN cur ELSE through(enter(cur, Head(segs)), Tail(segs))

\* fs.realpathSync(p): the canonical path, or the failure it throws
realpathSync(p) == through(Found(<<sep>>), split(p))

\* fs.statSync(p).isDirectory(), FALSE where statSync throws (lines 224-229)
isDirectory(p) == realpathSync(p).found /\ isDir(realpathSync(p).path)

Gives(v) == [threw |-> FALSE, value |-> v]
RangeError == [threw |-> TRUE, value |-> FALSE]

\* The paths the ignore library refuses with a RangeError: the empty one,
\* one of dots only, one that starts with dots and a separator.
refused(str) ==
    \/ str = << >>
    \/ \A i \in DOMAIN str : str[i] = dot
    \/ \E j \in DOMAIN str : str[j] = sep /\ \A h \in 1..(j - 1) : str[h] = dot

\* customIgnoreFilter.ignores(pathToCheck): a pattern is a name, and matches
\* a path that has a segment of that name.
ignores(pathToCheck) ==
    IF refused(pathToCheck) THEN RangeError
    ELSE Gives(\E i \in DOMAIN split(pathToCheck) :
                   split(pathToCheck)[i] \in customIgnoreFilter)

isAbsolute(str) == str # << >> /\ str[1] = sep

\* relativePath.replace(/^[/\\]+/, "")
RECURSIVE stripLeading(_)
stripLeading(str) ==
    IF str # << >> /\ str[1] \in {sep, "\\"} THEN stripLeading(Tail(str)) ELSE str

\* relativePath.replace(/\\/g, "/")
toSlashes(str) == [i \in DOMAIN str |-> IF str[i] = "\\" THEN sep ELSE str[i]]

\* git.isGitRepository(dir)
isGitRepository(dir) == dir \in git.repos

\* isIgnored(filePath, root), lines 198-243
isIgnored(filePath, root) ==
    IF isHiddenFile(filePath, root) THEN Gives(TRUE)
    ELSE LET rel == relative(root, filePath)
             relativePath == IF isAbsolute(rel) THEN stripLeading(rel) ELSE rel
             normalizedPath == toSlashes(relativePath)
             pathToCheck == IF isDirectory(filePath)
                            THEN normalizedPath \o <<sep>> ELSE normalizedPath
         IN  IF startsWith(relativePath, <<dot, dot>>) THEN Gives(TRUE)
             ELSE IF normalizedPath = << >> THEN Gives(FALSE)
             ELSE IF ignores(pathToCheck).threw THEN RangeError
             ELSE IF ignores(pathToCheck).value THEN Gives(TRUE)
             ELSE IF isGitRepository(root) THEN Gives(filePath \in git.ignored)
             ELSE Gives(FALSE)

\* A call of isIgnored.
IsIgnored ==
    /\ ignoreCall.pc = "idle"
    /\ fileSystem' = [fileSystem EXCEPT
           !.ignoreCall.pc = "done",
           !.ignoreCall.threw = isIgnored(ignoreCall.filePath, ignoreCall.root).threw,
           !.ignoreCall.value = isIgnored(ignoreCall.filePath, ignoreCall.root).value]
    /\ UNCHANGED <<poolVars, embedVars, searcherVars, rankVars, metaVars>>

IgnoreChars == {sep, dot, "a"}
AbsolutePaths(n) ==
    {<<sep>> \o rest : rest \in UNION {[1..m -> IgnoreChars] : m \in 0..(n - 1)}}

\* The directories on the way to a path, the path itself as a directory.
directoriesTo(p) ==
    {<<sep>> \o joinSegments(SubSeq(resolve(p), 1, n)) : n \in 1..Len(resolve(p))}

IgnoreInit ==
    /\ PoolIdle /\ EmbedIdle /\ SearcherIdle /\ RankIdle /\ MetaIdle
    /\ \E filePath \in AbsolutePaths(MaxPathLen), root \in AbsolutePaths(MaxRootLen) :
           \E patterns \in {{}, {<<"a">>}},
              answers \in {NoGit, [NoGit EXCEPT !.repos = {root}],
                           [NoGit EXCEPT !.repos = {root}, !.ignored = {filePath}]},
              tree \in {NoDisk, [NoDisk EXCEPT !.dirs = directoriesTo(filePath)]} :
               fileSystem = [customIgnoreFilter |-> patterns,
                             git |-> answers,
                             disk |-> tree,
                             walk |-> NoWalk,
                             ignoreCall |-> [NoIgnoreCall EXCEPT !.filePath = filePath,
                                                                 !.root = root]]

IgnoreNext == IsIgnored

IgnoreSpec == IgnoreInit /\ [][IgnoreNext]_fileVars

\* A segment that makes a path hidden.
hiddenSegment(seg) == startsWith(seg, <<dot>>) /\ seg \notin {<<dot>>, <<dot, dot>>}

\* C27: a path with a segment, relative to the root, that starts with "."
\* and is neither "." nor ".." is ignored whatever the custom and VCS rules
\* are; the root itself and root/. are not ignored; a path resolving outside
\* the root, root/.. among them, is ignored; none of these calls throws.
C27_IgnorePrecedence ==
    ignoreCall.pc = "done" =>
        LET r == resolve(ignoreCall.root)
            p == resolve(ignoreCall.filePath)
            inside == Len(r) <= Len(p) /\ SubSeq(p, 1, Len(r)) = r
        IN  /\ (\E i \in DOMAIN p : i > commonLength(r, p) /\ hiddenSegment(p[i])) =>
                   (~ignoreCall.threw /\ ignoreCall.value)
            /\ p = r => (~ignoreCall.threw /\ ~ignoreCall.value)
            /\ ~inside => (~ignoreCall.threw /\ ignoreCall.value)

\* A hidden directory below the root is asked about while no custom pattern
\* is set and the root is no repository.
C27_Witness ==
    /\ ignoreCall.pc = "done"
    /\ ignoreCall.root = <<sep, "a">>
    /\ ignoreCall.filePath = <<sep, "a", sep, dot, "a">>
    /\ customIgnoreFilter = {}
    /\ git = NoGit
    /\ ignoreCall.value

\* ---------------------------------------------------------------- getFiles
\* The root getFiles is called on, and the names of the tree below it.
Root == <<sep, "r">>
osgrepignore == <<dot, "o", "s", "g", "r", "e", "p", "i", "g", "n", "o", "r", "e">>
NameOrder == <<<<dot, "a">>, osgrepignore, <<"a">>, <<"b">>, <<"k">>, <<"l">>>>

reverse(seq) == [i \in DOMAIN seq |-> seq[Len(seq) + 1 - i]]

\* The entries of a real directory: what is on disk under one of the names.
onDisk(c) == c \in disk.dirs \cup disk.files \cup DOMAIN disk.links

\* fs.promises.readdir(dir, { withFileTypes: true }): the names, in the
\* order of the file system.
readdir(realDir) ==
    LET names == SelectSeq(NameOrder, LAMBDA n : onDisk(pathJoin(realDir, n)))
    IN  IF disk.descending THEN reverse(names) ELSE names

Null == [resolved |-> FALSE, isDir |-> FALSE, isFile |-> FALSE, realPath |-> << >>]

\* resolveEntry(fullPath, entry), lines 70-93; `entry` is what the real
\* directory holds under the name.
resolveEntry(fullPath, entry) ==
    IF entry \in DOMAIN disk.links
    THEN IF realpathSync(fullPath).found
         THEN [resolved |-> TRUE,
               isDir |-> isDir(realpathSync(fullPath).path),
               isFile |-> realpathSync(fullPath).path \in disk.files,
               realPath |-> realpathSync(fullPath).path]
         ELSE Null
    ELSE [resolved |-> TRUE, isDir |-> entry \in disk.dirs,
          isFile |-> entry \in disk.files, realPath |-> fullPath]

\* git.getGitFiles(dir): the paths the listing of tracked files yields
getGitFiles(dir) == IF dir \in git.repos THEN git.tracked ELSE << >>

Call(dir) == [dir |-> dir, phase |-> "call", entries |-> << >>]

\* What is left of the call once a generator returns: the caller goes on,
\* or getFiles is done.
return(stack) == Tail(stack)
pcAfter(stack) == IF stack = << >> THEN "done" ELSE "walk"

\* loadOsgrepignore(dirRoot), lines 254-259: the patterns it adds, or the
\* error of readFileSync on a directory or on a file that cannot be read.
loadOsgrepignore(dirRoot) ==
    LET ignoreFile == realpathSync(pathJoin(dirRoot, osgrepignore))
    IN  IF ~ignoreFile.found THEN [threw |-> FALSE, patterns |-> {}]
        ELSE IF ignoreFile.path \in disk.files /\ ignoreFile.path \notin disk.unreadable
        THEN [threw |-> FALSE, patterns |-> disk.text]
        ELSE [threw |-> TRUE, patterns |-> {}]

\* Faulty variant: nothing is recorded as visited.
forgetful(visited, realDir) == visited

\* visited.add(realDir)
remember(visited, realDir) == visited \cup {realDir}

\* Faulty variant: a listing is taken to have yielded whatever it holds.
yieldedAlways(listing) == TRUE

\* The flag `yielded` once the loop over a listing is over, lines 152-156
\* and 178-182: the listing yielded a path.
yieldedAny(listing) == listing # << >>

\* getFiles(dirRoot) up to its first loop, lines 175-195
GetFiles ==
    /\ walk.pc = "idle"
    /\ fileSystem' =
           IF loadOsgrepignore(Root).threw
           THEN [fileSystem EXCEPT !.walk.pc = "threw"]
           ELSE [fileSystem EXCEPT
                     !.customIgnoreFilter = @ \cup loadOsgrepignore(Root).patterns,
                     !.walk = IF isGitRepository(Root)
                              THEN [walk EXCEPT !.pc = "git"]
                              ELSE [walk EXCEPT !.pc = "walk", !.stack = <<Call(Root)>>]]
    /\ UNCHANGED <<poolVars, embedVars, searcherVars, rankVars, metaVars>>

\* The listing of the root repository, and the fallback, lines 177-193
GitFiles ==
    /\ walk.pc = "git"
    /\ fileSystem' = [fileSystem EXCEPT !.walk =
           IF yieldedAny(getGitFiles(Root))
           THEN [walk EXCEPT !.pc = "done", !.yielded = @ \o getGitFiles(Root)]
           ELSE [walk EXCEPT !.pc = "walk", !.stack = <<Call(Root)>>]]
    /\ UNCHANGED <<poolVars, embedVars, searcherVars, rankVars, metaVars>>

\* getAllFilesRecursive(dir, root, visited) up to its loop, lines 109-125
Enter ==
    /\ walk.pc = "walk"
    /\ Head(walk.stack).phase = "call"
    /\ LET dir == Head(walk.stack).dir
           realDir == realpathSync(dir)
       IN  fileSystem' = [fileSystem EXCEPT !.walk =
               IF ~realDir.found \/ realDir.path \in walk.visited
               THEN [walk EXCEPT !.stack = return(@), !.pc = pcAfter(return(walk.stack))]
               ELSE IF realDir.path \in disk.unreadable \/ ~isDir(realDir.path)
               THEN [walk EXCEPT !.visited = remember(@, realDir.path),
                                 !.stack = return(@),
                                 !.pc = pcAfter(return(walk.stack))]
               ELSE [walk EXCEPT !.visited = remember(@, realDir.path),
                                 !.stack[1].phase = "loop",
                                 !.stack[1].entries = readdir(realDir.path)]]
    /\ UNCHANGED <<poolVars, embedVars, searcherVars, rankVars, metaVars>>

\* One turn of the loop over the entries, lines 126-168
Step ==
    /\ walk.pc = "walk"
    /\ Head(walk.stack).phase = "loop"
    /\ Head(walk.stack).entries # << >>
    /\ LET dir == Head(walk.stack).dir
           name == Head(Head(walk.stack).entries)
           fullPath == pathJoin(dir, name)
           resolved == resolveEntry(fullPath, pathJoin(realpathSync(dir).path, name))
           next == [walk EXCEPT !.stack[1].entries = Tail(@)]
       IN  fileSystem' = [fileSystem EXCEPT !.walk =
               IF isHiddenFile(fullPath, Root) THEN next
               ELSE IF ~resolved.resolved THEN next
               ELSE IF resolved.isDir
               THEN IF resolved.realPath \in walk.visited THEN next
                    ELSE IF isGitRepository(fullPath) /\ yieldedAny(getGitFiles(fullPath))
                    THEN [next EXCEPT !.yielded = @ \o getGitFiles(fullPath)]
                    ELSE [next EXCEPT !.stack = <<Call(fullPath)>> \o @]
               ELSE IF resolved.isFile
               THEN [next EXCEPT !.yielded = Append(@, fullPath)]
               ELSE next]
    /\ UNCHANGED <<poolVars, embedVars, searcherVars, rankVars, metaVars>>

\* The loop is over: the generator returns, line 173
Return ==
    /\ walk.pc = "walk"
    /\ Head(walk.stack).phase = "loop"
    /\ Head(walk.stack).entries = << >>
    /\ fileSystem' = [fileSystem EXCEPT !.walk =
           [walk EXCEPT !.stack = return(@), !.pc = pcAfter(return(walk.stack))]]
    /\ UNCHANGED <<poolVars, embedVars, searcherVars, rankVars, metaVars>>

\* The trees getFiles is run on: the real files and directories below the
\* root, with up to MaxLinks symbolic links among them.
DirA == pathJoin(Root, <<"a">>)
FileAA == pathJoin(DirA, <<"a">>)
DirAB == pathJoin(DirA, <<"b">>)
FileABA == pathJoin(DirAB, <<"a">>)
FileB == pathJoin(Root, <<"b">>)
HiddenDir == pathJoin(Root, <<dot, "a">>)
HiddenFile == pathJoin(HiddenDir, <<"a">>)
IgnoreFile == pathJoin(Root, osgrepignore)
Missing == pathJoin(Root, <<"x">>)

RealTree == [NoDisk EXCEPT !.dirs = {Root, DirA, DirAB, HiddenDir},
                           !.files = {FileAA, FileABA, FileB, HiddenFile}]

LinkPlaces == {pathJoin(Root, <<"k">>), pathJoin(Root, <<"l">>), pathJoin(DirA, <<"k">>),
               pathJoin(DirAB, <<"k">>)}
LinkTargets == {Root, DirA, DirAB, FileAA, HiddenDir, Missing}

RECURSIVE linksUpTo(_)
linksUpTo(n) ==
    IF n = 0 THEN {<< >>}
    ELSE linksUpTo(n - 1) \cup
         {(place :> target) @@ links :
              links \in linksUpTo(n - 1), place \in LinkPlaces, target \in LinkTargets}

\* What else the tree and the objects around it hold: a directory that
\* cannot be read, a file .osgrepignore (with a pattern, unreadable, or a
\* directory of that name), a pattern given to the constructor, a repository
\* at the root or below it with a listing that yields paths or none.
Plain == [unreadable |-> {}, files |-> {}, dirs |-> {}, text |-> {}, patterns |-> {},
          repos |-> {}, tracked |-> << >>, throughLinks |-> FALSE]
Variants ==
    {Plain,
     [Plain EXCEPT !.unreadable = {DirA}],
     [Plain EXCEPT !.unreadable = {DirAB}],
     [Plain EXCEPT !.files = {IgnoreFile}, !.text = {<<"b">>}],
     [Plain EXCEPT !.files = {IgnoreFile}, !.unreadable = {IgnoreFile}],
     [Plain EXCEPT !.dirs = {IgnoreFile}],
     [Plain EXCEPT !.patterns = {<<"b">>}],
     [Plain EXCEPT !.repos = {Root}],
     [Plain EXCEPT !.repos = {Root}, !.tracked = <<FileAA, FileB>>],
     [Plain EXCEPT !.repos = {DirA}],
     [Plain EXCEPT !.repos = {DirA}, !.tracked = <<FileAA>>],
     [Plain EXCEPT !.repos = {DirA}, !.throughLinks = TRUE],
     [Plain EXCEPT !.repos = {DirA}, !.tracked = <<FileAA>>, !.throughLinks = TRUE]}

\* The directories the Git object takes for repositories: those of the
\* variant and, when it follows links, the links to them.
reposOf(v, links) ==
    v.repos \cup (IF v.throughLinks
                  THEN {l \in DOMAIN links : links[l] \in v.repos}
                  ELSE {})

WalkInit ==
    /\ PoolIdle /\ EmbedIdle /\ SearcherIdle /\ RankIdle /\ MetaIdle
    /\ \E links \in linksUpTo(MaxLinks), v \in Variants, descending \in BOOLEAN :
           fileSystem =
               [customIgnoreFilter |-> v.patterns,
                git |-> [repos |-> reposOf(v, links), tracked |-> v.tracked,
                         ignored |-> {}],
                disk |-> [dirs |-> RealTree.dirs \cup v.dirs,
                          files |-> RealTree.files \cup v.files,
                          links |-> links,
                          unreadable |-> v.unreadable,
                          descending |-> descending,
                          text |-> v.text],
                walk |-> NoWalk,
                ignoreCall |-> NoIgnoreCall]

WalkNext == GetFiles \/ GitFiles \/ Enter \/ Step \/ Return

WalkSpec == WalkInit /\ [][WalkNext]_fileVars

\* The directory a path lies in, and its name there.
dirname(p) == SubSeq(p, 1, Len(p) - Len(split(p)[Len(split(p))]) - 1)
basename(p) == split(p)[Len(split(p))]

\* The entry on disk a yielded path names: its name in the real directory
\* the path leads to.
entryOf(p) == pathJoin(realpathSync(dirname(p)).path, basename(p))

\* How often the regular file f was yielded under its own name.
timesYielded(f) == Cardinality({i \in DOMAIN walk.yielded : entryOf(walk.yielded[i]) = f})

visibleName(n) == ~startsWith(n, <<dot>>)
readable(d) == d \notin disk.unreadable

\* The real directories one step from the readable directories of D through
\* a name that is not hidden: a directory, or a link to one.
oneStepFrom(D) ==
    {c \in disk.dirs :
        \E d \in D, n \in {NameOrder[i] : i \in DOMAIN NameOrder} :
            /\ readable(d) /\ visibleName(n)
            /\ \/ c = pathJoin(d, n)
               \/ pathJoin(d, n) \in DOMAIN disk.links /\ disk.links[pathJoin(d, n)] = c}

RECURSIVE within(_, _)
within(D, n) == IF n = 0 THEN D ELSE within(D \cup oneStepFrom(D), n - 1)

\* The real directories that some path of visible names leads to from the
\* root, through directories that can be read.
reachable == within({Root}, Cardinality(disk.dirs))

\* The regular files the traversal has a way to, R being the directories
\* it can reach: a visible name in a readable directory among them.
inReach(f, R) == dirname(f) \in R /\ readable(dirname(f)) /\ visibleName(basename(f))

\* The real directories with a link to them that the traversal has a way to.
linkedTo(R) ==
    {disk.links[l] : l \in {k \in DOMAIN disk.links : inReach(k, R)}} \cap disk.dirs

\* C28: in a raw traversal of a tree in which a real directory can be
\* reached through several paths, its real path and directory links to it,
\* every real file inside the directory is yielded exactly once.
C28_SymlinkDedup ==
    (git.repos = {} /\ walk.pc \in {"walk", "done"}) =>
        LET R == reachable
            several == linkedTo(R)
        IN  \A f \in disk.files :
                ((\E d \in several : startsWith(f, d \o <<sep>>)) /\ inReach(f, R)) =>
                    /\ timesYielded(f) <= 1
                    /\ walk.pc = "done" => timesYielded(f) = 1

\* The monorepo: two links to the directory a, read before it; its file is
\* yielded through a link, once.
C28_Witness ==
    /\ walk.pc = "done"
    /\ git.repos = {}
    /\ disk.links = (pathJoin(Root, <<"k">>) :> DirA) @@ (pathJoin(Root, <<"l">>) :> DirA)
    /\ \E i \in DOMAIN walk.yielded :
           walk.yielded[i] = pathJoin(pathJoin(Root, <<"l">>), <<"a">>)
    /\ timesYielded(FileAA) = 1

\* The consumer of the generator keeps asking for the next path.
WalkFairSpec == WalkSpec /\ WF_fileVars(WalkNext)

\* What a finished raw traversal has yielded: every file it has a way to
\* once, and no link that leads nowhere.
eachFileOnce ==
    LET R == reachable
    IN  /\ \A f \in disk.files : inReach(f, R) => timesYielded(f) = 1
        /\ \A i \in DOMAIN walk.yielded : realpathSync(walk.yielded[i]).found

\* C29: on every finite tree, with a link to the directory it is in or to an
\* ancestor, broken links and unreadable directories, getFiles(root) comes
\* to its end without throwing, skips the broken and the unreadable entries
\* and yields each real file once.
C29_TerminatesCleanly ==
    /\ <>(walk.pc = "done")
    /\ [](walk.pc # "threw")
    /\ []((walk.pc = "done" /\ git.repos = {}) => eachFileOnce)

\* C30: getFiles(root) yields indexable files only: isIgnored(p, root) is
\* false of every path p it yields.
C30_OnlyIndexable ==
    \A i \in DOMAIN walk.yielded : isIgnored(walk.yielded[i], Root) = Gives(FALSE)

\* ------------------------------------------- listings of tracked files
\* The path the loop over the entries handles next.
metPath == pathJoin(Head(walk.stack).dir, Head(Head(walk.stack).entries))

\* The raw traversal meets a directory that is a repository: an entry that
\* is not hidden, resolves to a directory not visited yet, and that the Git
\* object takes for a repository.
meetsRepository ==
    /\ walk.pc = "walk"
    /\ Head(walk.stack).phase = "loop"
    /\ Head(walk.stack).entries # << >>
    /\ ~isHiddenFile(metPath, Root)
    /\ LET resolved == resolveEntry(metPath, entryOf(metPath))
       IN  resolved.resolved /\ resolved.isDir /\ resolved.realPath \notin walk.visited
    /\ isGitRepository(metPath)

\* The frames of the traversal once the entry at hand is dealt with.
entryDone == [walk.stack EXCEPT ![1].entries = Tail(@)]

\* What one step does with a repository: its listing and nothing else, or
\* the call of the raw traversal on it.
listingOrFallback ==
    /\ walk.pc = "git" =>
           IF getGitFiles(Root) # << >>
           THEN /\ walk'.pc = "done"
                /\ walk'.yielded = getGitFiles(Root)
                /\ walk'.stack = << >> /\ walk'.visited = {}
           ELSE /\ walk'.pc = "walk"
                /\ walk'.yielded = << >>
                /\ walk'.stack = <<Call(Root)>>
    /\ meetsRepository =>
           IF getGitFiles(metPath) # << >>
           THEN /\ walk'.yielded = walk.yielded \o getGitFiles(metPath)
                /\ walk'.stack = entryDone
                /\ walk'.visited = walk.visited
           ELSE /\ walk'.yielded = walk.yielded
                /\ walk'.stack = <<Call(metPath)>> \o entryDone

\* C31: a repository, the root or a directory the raw traversal meets, whose
\* listing of tracked files yields a path contributes exactly that listing
\* and is not traversed; one whose listing yields nothing is traversed raw,
\* so that a finished getFiles over empty listings has yielded what the raw
\* traversal yields.
C31_ListingOrFallback ==
    /\ [][listingOrFallback]_fileVars
    /\ []((isGitRepository(Root) /\ git.tracked # << >>) => walk.pc # "walk")
    /\ []((walk.pc = "done" /\ git.tracked = << >>) => eachFileOnce)

\* The directory a is a repository whose listing yields nothing: it was
\* traversed, and its files were yielded.
C31_Witness ==
    /\ walk.pc = "done"
    /\ isGitRepository(DirA) /\ git.tracked = << >>
    /\ DirA \in walk.visited
    /\ timesYielded(FileAA) = 1 /\ timesYielded(FileABA) = 1

\* The paths a listing of tracked files holds.
listing == {git.tracked[j] : j \in DOMAIN git.tracked}

\* The real directories whose files have been enumerated: those a yielded
\* path of the raw traversal lies in, and the repositories whose listing was
\* yielded.
enumerated ==
    {realpathSync(dirname(walk.yielded[i])).path :
        i \in {k \in DOMAIN walk.yielded : walk.yielded[k] \notin listing}}
    \cup {realpathSync(d).path :
            d \in {r \in git.repos : \E i \in DOMAIN walk.yielded : walk.yielded[i] \in listing}}

\* C36: in a raw traversal every directory whose files have been
\* enumerated, walked or listed as a repository, has its real path in the
\* visited set, and no file is yielded twice under its own name.
C36_VisitedCoversEnumerated ==
    (walk.pc \in {"walk", "done"} /\ ~isGitRepository(Root)) =>
        /\ enumerated \subseteq walk.visited
        /\ \A f \in disk.files : timesYielded(f) <= 1

\* ======================================================================
\* Further properties of the worker pool
\* ======================================================================
\* The restart of slot i is at its `await worker.terminate()`.
underRestart(i) == restartInFlight[i] = "pending"

\* C32: the steps of one restart of slot i come in order.  While the restart
\* future of the slot is in the map, the requests that were pending on the
\* slot are rejected already, terminate() has been called on the old Worker,
\* which is still the one in the slot, and one body awaits it.  The step that
\* stores the future rejects the requests; the step that clears it puts a
\* live Worker in the same slot; and the body whose terminate() rejects goes
\* on to that step all the same.
C32_RestartOrder ==
    /\ [](\A i \in Slots :
              underRestart(i) =>
                  /\ PendingAt(i) = {}
                  /\ workers[i] = "Worker" /\ wstate[i] = "terminating"
                  /\ iife[i] = 1)
    /\ [][ \A i \in Slots :
               /\ (~underRestart(i) /\ restartInFlight'[i] = "pending") =>
                      /\ \A x \in PendingAt(i) :
                             /\ rstate'[x] \in {"restarting", "replied"}
                             /\ x \notin DOMAIN pendingRequests'
                      /\ workers'[i] = workers[i]
                      /\ wstate'[i] = "terminating"
               /\ (underRestart(i) /\ restartInFlight'[i] = "none") =>
                      /\ workers'[i] = "Worker" /\ wstate'[i] = "live"
                      /\ DOMAIN workers' = DOMAIN workers
               /\ (wstate[i] = "terminating" /\ wstate'[i] = "live") => underRestart(i)
               /\ \A ok \in BOOLEAN :
                      TerminateFails(i, ok) =>
                          /\ workers'[i] = "Worker" /\ wstate'[i] = "live"
                          /\ restartInFlight'[i] = "none"
         ]_poolVars

\* A restart of a slot has run to its end: the request that was pending there
\* carries the restart error, and the next request is pending on the fresh
\* Worker of the same slot.
C32_Witness ==
    \E a, b \in ReqIds :
        /\ a < b /\ rslot[a] = rslot[b]
        /\ rstate[a] = "restarting" /\ rstate[b] = "pending"
        /\ restartInFlight[rslot[b]] = "none"
        /\ wstate[rslot[b]] = "live" /\ b \in inbox

\* The event loop at work: an armed timer fires in the end, and a Worker
\* that terminate() was called on exits.
PoolFairSpec ==
    /\ PoolSpec
    /\ \A id \in ReqIds : WF_poolVars(Timeout(id))
    /\ \A i \in 0..(getWorkerCount(MaxCpus) - 1) :
           WF_poolVars(\E ok \in BOOLEAN :
                          i \in Slots /\ wstate[i] = "terminating" /\ OnExit(i, 1, ok))

\* C33: a request in the pending map is settled in the end, by its reply, by
\* the restart of its slot or by its timer, whatever becomes of its Worker
\* and of the pool; and a request handed to sendToWorker does not wait for a
\* slot forever.
C33_EveryRequestSettled ==
    /\ \A id \in ReqIds : (id \in DOMAIN pendingRequests) ~> (rstate[id] \in Settled)
    /\ \A id \in ReqIds : (rstate[id] = "waiting") ~> (rstate[id] \in Settled \cup {"threw"})

\* A request was posted to a Worker of a closing pool that has exited since:
\* its timer has rejected it.
C33_Witness ==
    \E id \in ReqIds :
        /\ rstate[id] = "timeout" /\ settles[id] = 1
        /\ isClosing /\ wstate[rslot[id]] = "exited"
        /\ id \notin DOMAIN pendingRequests

\* C37: every restart of a slot ends with its restart future out of the map
\* and a Worker in the slot, also when terminate() rejects and when the
\* replacement cannot be constructed.
C37_RestartEnds ==
    \A i \in 0..(getWorkerCount(MaxCpus) - 1) :
        []((i \in Slots /\ underRestart(i)) =>
               <>(i \in Slots /\ restartInFlight[i] = "none" /\ workers[i] = "Worker"))

\* C38: once close() has begun no Worker is constructed, whatever signal
\* comes in and whatever restart was in flight, and no slot holds a live
\* Worker when close() has returned.
C38_NoWorkerAfterClose ==
    /\ [][ isClosing => \A i \in Slots : ~(wstate[i] # "live" /\ wstate'[i] = "live")
         ]_poolVars
    /\ []((\E c \in CloseIds : closeDone(c)) => \A i \in Slots : wstate[i] # "live")

\* ======================================================================
\* A loaded MetaStore that is changed and saved
\* ======================================================================
\* The keys of the map: a file in the directory a, and a file beside it.
KeyInDir == <<"a", sep, "a">>
KeyBeside == <<"a", "a">>
StoreKeys == {KeyInDir, KeyBeside}

\* The entry set() is given.
StoreEntry == CHOOSE e \in MetaEntries : e.size = 1

\* The store after the load() of a process that found no main file, or the
\* snapshot of one entry.
StoreInit ==
    /\ PoolIdle /\ EmbedIdle /\ SearcherIdle /\ RankIdle /\ FileIdle
    /\ \E before \in {<< >>, oneKey(KeyInDir, StoreEntry)} :
           metaStore = [FreshStore(IF before = << >> THEN Absent ELSE Json(stringify(before)),
                                   Absent)
                            EXCEPT !.data = before, !.loaded = TRUE]

\* deleteByPrefix is called once, on the map of both keys.
StoreNext ==
    \/ \E c \in SaveIds : Save(c)
    \/ \E c \in SaveIds : SaveStart(c)
    \/ \E c \in SaveIds, ok \in BOOLEAN : MkdirDone(c, ok)
    \/ \E c \in SaveIds, ok \in BOOLEAN : WriteBegun(c, ok)
    \/ \E c \in SaveIds, ok \in BOOLEAN : WriteDone(c, ok)
    \/ \E c \in SaveIds, ok \in BOOLEAN : RenameDone(c, ok)
    \/ \E k \in StoreKeys : Set(k, StoreEntry)
    \/ \E k \in StoreKeys : Delete(k)
    \/ deleteCall.calls = 0 /\ DOMAIN data = StoreKeys /\ DeleteByPrefix(<<"a">>)
    \/ Load

StoreSpec == StoreInit /\ [][StoreNext]_metaVars

\* The map the main file holds.
mainMap == tryLoad(metaFile).map

\* The maps m and n agree on the key k.
agreeOn(m, n, k) ==
    /\ (k \in DOMAIN m) = (k \in DOMAIN n)
    /\ k \in DOMAIN m => m[k] = n[k]

\* C39: at the step that resolves a save, the main file agrees with the map
\* save() was called on, at every key that was not changed again before the
\* map was serialized; when the last save that was called has resolved and
\* nothing was changed since it serialized the map, the main file holds the
\* map in memory; and load() on a loaded store reads nothing and leaves the
\* map and the files as they are.
C39_NoMutationLost ==
    /\ [][\A c \in SaveIds :
              (saves[c].pc # "resolved" /\ saves'[c].pc = "resolved") =>
                  /\ ~tryLoad(metaFile').threw
                  /\ \A k \in StoreKeys \ saves[c].touched :
                         agreeOn(tryLoad(metaFile').map, saves[c].atCall, k)]_metaVars
    /\ [](\A c \in SaveIds :
              (saves[c].pc = "resolved" /\ saveQueue = c /\ ~metaStore.dirty) =>
                  /\ ~tryLoad(metaFile).threw
                  /\ \A k \in StoreKeys : agreeOn(mainMap, data, k))
    /\ [][ (loaded /\ loadCall.pc = "idle" /\ loadCall'.pc # "idle") =>
               /\ loadCall'.pc = "done"
               /\ data' = data /\ metaFile' = metaFile /\ tmpFile' = tmpFile
         ]_metaVars

\* A key was set before save() was called, another was deleted before the
\* map was serialized, the save has resolved and nothing was changed since:
\* the main file holds both changes; load() was called meanwhile.
C39_Witness ==
    \E c \in SaveIds :
        /\ saves[c].pc = "resolved" /\ saveQueue = c /\ ~metaStore.dirty
        /\ c > 1 /\ saves[c - 1].pc = "rejected"
        /\ deleteCall.calls = 1
        /\ KeyInDir \notin DOMAIN mainMap
        /\ KeyBeside \in DOMAIN mainMap
        /\ loadCall.pc = "done"

\* ======================================================================
\* Searches with small limits
\* ======================================================================
\* top_k undefined, 0 and 1; STAGE1_K and RERANK_TOP at their defaults or 2.
LimitTopKs == {NoTopK, 0, 1}
LimitEnvs ==
    {EnvUnset,
     [EnvUnset EXCEPT !["OSGREP_STAGE1_K"] = "2"],
     [EnvUnset EXCEPT !["OSGREP_RERANK_TOP"] = "2"]}

LimitInit ==
    /\ PoolIdle /\ EmbedIdle /\ SearcherIdle /\ LaterIdle
    /\ env \in LimitEnvs
    /\ ranking = NoRanking

LimitNext ==
    \/ \E top_k \in LimitTopKs : RetrieveFor(top_k)
    \/ \E queryPooled \in BOOLEAN, cosine \in CosineTables : Stage1(queryPooled, cosine)
    \/ \E table \in RerankTables : Score(table)

LimitSpec == LimitInit /\ [][LimitNext]_rankVars

\* C34: the result of a search holds at most final_limit records, none when
\* final_limit is 0, and the shaped scores of its records do not increase.
C34_AtMostFinalLimit ==
    ranking.pc = "done" =>
        /\ Len(ranking.data) <= finalLimitOf(ranking.top_k)
        /\ finalLimitOf(ranking.top_k) = 0 => ranking.data = << >>
        /\ \A i, j \in 1..Len(ranking.data) :
               i < j => ~greater(ranking.data[j].score, ranking.data[i].score)

\* The place at which the key of row d was first set in candidateScores: its
\* place in the dense list, or after the whole dense list its place in the
\* full-text list.
firstSeen(d) ==
    IF inList(ranking.vectorResults, d) THEN indexOf(ranking.vectorResults, d)
    ELSE Len(ranking.vectorResults) + indexOf(ranking.ftsResults, d)

\* C35: the fused list holds the key of every row of the two lists exactly
\* once, by total RRF score descending, candidates of equal score in the
\* order their keys were first seen (dense list first), and topCandidates is
\* its first STAGE1_K entries.  These conditions leave one list only, so two
\* searches over the same two lists have the same fused list.
C35_FusedOrder ==
    ranking.pc # "idle" =>
        LET F == ranking.fused
            totalOf(d) == ranking.candidateScores[keyOf(d)]
        IN  /\ {keyOf(F[i]) : i \in 1..Len(F)} =
                   {keyOf(ranking.vectorResults[i]) : i \in 1..Len(ranking.vectorResults)}
                   \cup {keyOf(ranking.ftsResults[i]) : i \in 1..Len(ranking.ftsResults)}
            /\ \A i, j \in 1..Len(F) : i # j => keyOf(F[i]) # keyOf(F[j])
            /\ \A i, j \in 1..Len(F) :
                   i < j => \/ totalOf(F[i]) > totalOf(F[j])
                            \/ totalOf(F[i]) = totalOf(F[j]) /\ firstSeen(F[i]) < firstSeen(F[j])
            /\ Len(ranking.topCandidates) = Min(STAGE1_K(env), Len(F))
            /\ \A i \in 1..Len(ranking.topCandidates) : ranking.topCandidates[i] = F[i]

\* One key is in both lists, a dense row and a row of the full-text list
\* alone have the same total score, and the fused list of three was cut to 2.
C35_Witness ==
    /\ ranking.pc = "done"
    /\ Len(ranking.fused) = 3 /\ Len(ranking.topCandidates) = 2
    /\ \E d \in RowIds : inList(ranking.vectorResults, d) /\ inList(ranking.ftsResults, d)
    /\ \E i \in 1..2 :
           /\ ranking.candidateScores[keyOf(ranking.fused[i])] =
                  ranking.candidateScores[keyOf(ranking.fused[i + 1])]
           /\ inList(ranking.vectorResults, ranking.fused[i])
           /\ ~inList(ranking.vectorResults, ranking.fused[i + 1])

\* C40: every record of the result is one of the first RERANK_TOP entries of
\* the stage-2 candidate list, the result holds at most
\* min(final_limit, RERANK_TOP) records, and no chunk is in it twice.
C40_OnlyRerankCandidates ==
    ranking.pc = "done" =>
        LET S == ranking.stage2Candidates
            D == ranking.data
        IN  /\ \A i \in 1..Len(D) :
                   \E j \in 1..Min(RERANK_TOP(env), Len(S)) : S[j] = D[i].record
            /\ Len(D) <= Min(finalLimitOf(ranking.top_k), RERANK_TOP(env))
            /\ \A i, j \in 1..Len(D) : i # j => keyOf(D[i].record) # keyOf(D[j].record)

====
